---------------------------- MODULE Spec2Model ----------------------------
(***************************************************************************)
(* Drift scoring (the five validators and calculateDrift) and the strategy *)
(* execution engine (runExperiment and the five strategies) of the         *)
(* architectural-drift benchmark.                                          *)
(*                                                                         *)
(* Spec is a run of runExperiment, in which a call of generate either      *)
(* returns or throws.  ClientSpec is one call of generate, attempt by      *)
(* attempt.  ScorerSpec, VocabularySpec, TemplateSpec, StyleSpec,          *)
(* CrossRefSpec, SectionsSpec, AtypicalitySpec and ReportSpec are one call *)
(* of calculateDrift or of a validator on a document put together from     *)
(* named pieces; ScoredSpec is a series of calls of calculateDrift.        *)
(* DriverSpec is the command line, run after run.                          *)
(*                                                                         *)
(* A text is a sequence of one-character strings.  Positions are 1-based   *)
(* here and 0-based in the source; only their order is ever used.          *)
(***************************************************************************)
EXTENDS Integers, Sequences, FiniteSets, TLC

(***************************************************************************)
(* Character classes of the regular expressions                            *)
(***************************************************************************)
LowerCase ==
    <<"a","b","c","d","e","f","g","h","i","j","k","l","m",
      "n","o","p","q","r","s","t","u","v","w","x","y","z">>

UpperCase ==
    <<"A","B","C","D","E","F","G","H","I","J","K","L","M",
      "N","O","P","Q","R","S","T","U","V","W","X","Y","Z">>

Range(s) == { s[k] : k \in DOMAIN s }

\* [a-z]
LowerLetter == Range(LowerCase)

\* [A-Z]
UpperLetter == Range(UpperCase)

\* \d
Digit == {"0","1","2","3","4","5","6","7","8","9"}

\* \s (the white space that occurs in the texts of the model)
Space == {" ", "\n", "\t", "\r"}

\* \w
WordChar == LowerLetter \cup UpperLetter \cup Digit \cup {"_"}

\* the line terminator that ^ and $ see under the m flag, and that . excludes
LineTerminator == {"\n", "\r"}

\* [.!?]
SentenceEnd == {".", "!", "?"}

toUpperCase(c) ==
    IF c \in LowerLetter
    THEN UpperCase[CHOOSE k \in 1..26 : LowerCase[k] = c]
    ELSE c

\* variant: the characters are compared as they are
SameCharacter(a, b) == a = b

\* character equality under the i flag
SameIgnoringCase(a, b) == toUpperCase(a) = toUpperCase(b)

Min(S) == CHOOSE x \in S : \A y \in S : x <= y

Max(S) == CHOOSE x \in S : \A y \in S : x >= y

Abs(n) == IF n < 0 THEN -n ELSE n

\* the first position at or after i that holds no character of class S
\* (Len(text) + 1 when the run reaches the end): where a greedy S+ stops
RunEnd(S, text, p) ==
    Min({ j \in p..(Len(text) + 1) : j = Len(text) + 1 \/ text[j] \notin S })

\* the first position at or after i that holds a character of class S
RunEndNot(S, text, p) ==
    Min({ j \in p..(Len(text) + 1) : j = Len(text) + 1 \/ text[j] \in S })

\* the literal pat stands in text at position p
LiteralAt(pat, text, p) ==
    /\ p >= 1
    /\ p + Len(pat) - 1 <= Len(text)
    /\ \A k \in 1..Len(pat) : text[p + k - 1] = pat[k]

\* the same under the i flag
LiteralAtIgnoringCase(pat, text, p) ==
    /\ p >= 1
    /\ p + Len(pat) - 1 <= Len(text)
    /\ \A k \in 1..Len(pat) : SameIgnoringCase(text[p + k - 1], pat[k])

\* ^ under the m flag
LineStart(text, p) == p = 1 \/ text[p - 1] \in LineTerminator

\* the maximal runs of characters of class S from position p on, in order,
\* each as [from, to]
RECURSIVE RunsOf(_, _, _)
RunsOf(S, text, p) ==
    LET a == RunEndNot(S, text, p)
        b == RunEnd(S, text, a)
    IN  IF a > Len(text) THEN <<>>
        ELSE <<[from |-> a, to |-> b - 1]>> \o RunsOf(S, text, b)

\* the maximal runs of characters outside class S
RECURSIVE RunsOutside(_, _, _)
RunsOutside(S, text, p) ==
    LET a == RunEnd(S, text, p)
        b == RunEndNot(S, text, a)
    IN  IF a > Len(text) THEN <<>>
        ELSE <<[from |-> a, to |-> b - 1]>> \o RunsOutside(S, text, b)

\* Array.prototype.map: F over the elements of s, in order
Map(s, F(_)) == SubSeq([k \in 1..Len(s) |-> F(s[k])], 1, Len(s))

\* String.prototype.trim
trim(s) ==
    LET keep == { k \in 1..Len(s) : s[k] \notin Space }
    IN  IF keep = {} THEN <<>> ELSE SubSeq(s, Min(keep), Max(keep))


(***************************************************************************)
(* I1: controlled vocabulary                                               *)
(***************************************************************************)
VOCABULARY ==
    << <<"Z","e","r","o"," ","T","r","u","s","t">>,
       <<"M","F","A">>,
       <<"B","a","s","t","i","o","n"," ","H","o","s","t">>,
       <<"R","B","A","C">>,
       <<"D","a","t","a"," ","A","t"," ","R","e","s","t">>,
       <<"D","a","t","a"," ","I","n"," ","T","r","a","n","s","i","t">>,
       <<"L","e","a","s","t"," ","P","r","i","v","i","l","e","g","e">>,
       <<"A","i","r"," ","G","a","p">>,
       <<"S","L","A">>,
       <<"B","i","o","m","e","t","r","i","c">>,
       <<"C","r","y","p","t","o","g","r","a","p","h","i","c"," ","S","a","l","t">>,
       <<"P","K","I">>,
       <<"E","n","d","p","o","i","n","t"," ","T","e","l","e","m","e","t","r","y">>,
       <<"S","I","E","M">>,
       <<"S","O","C","2">>,
       <<"G","D","P","R">>,
       <<"O","I","D","C">>,
       <<"S","A","M","L">>,
       <<"K","i","l","l"," ","C","h","a","i","n">>,
       <<"H","o","n","e","y","p","o","t">> >>

\* text.match(new RegExp(term, 'gi'))?.length ?? 0, counted from position p:
\* the matches are taken left to right and do not overlap
RECURSIVE countMatches(_, _, _)
countMatches(term, text, p) ==
    LET hits == { j \in p..(Len(text) - Len(term) + 1) :
                      LiteralAtIgnoringCase(term, text, j) }
    IN  IF hits = {} THEN 0
        ELSE 1 + countMatches(term, text, Min(hits) + Len(term))

\* the loop over VOCABULARY from its k-th term on
RECURSIVE vocabularyFrom(_, _, _)
vocabularyFrom(text, k, acc) ==
    IF k > Len(VOCABULARY) THEN acc
    ELSE LET term  == VOCABULARY[k]
             count == countMatches(term, text, 1)
         IN  vocabularyFrom(text, k + 1,
                IF count # 1
                THEN [violations |-> acc.violations + Abs(count - 1),
                      details |-> Append(acc.details,
                          [term |-> term, count |-> count, expected |-> 1])]
                ELSE acc)

validateVocabulary(text) ==
    vocabularyFrom(text, 1, [violations |-> 0, details |-> <<>>])

(***************************************************************************)
(* I2: section template                                                    *)
(***************************************************************************)
REQUIRED_SUBSECTIONS ==
    << <<"P","u","r","p","o","s","e">>,
       <<"S","c","o","p","e">>,
       <<"D","i","r","e","c","t","i","v","e","s">>,
       <<"E","x","c","e","p","t","i","o","n","s">>,
       <<"E","n","f","o","r","c","e","m","e","n","t">> >>

NoMatch == [matched |-> FALSE]

\* /^#{1,2}\s+\d+\.\s+(.+)$/m tried at position p.  The greedy \s+ before
\* the title gives characters back until a title character (any character
\* but a line terminator) follows it; the title then runs to the line's end.
templateHeadingAt(text, p) ==
    IF ~(p <= Len(text) /\ LineStart(text, p) /\ text[p] = "#") THEN NoMatch
    ELSE
    LET h == IF p + 1 <= Len(text) /\ text[p + 1] = "#" THEN 2 ELSE 1
        a == p + h
        b == RunEnd(Space, text, a)
        c == RunEnd(Digit, text, b)
        d == c + 1
        e == RunEnd(Space, text, d)
        titleStarts == { q \in (d + 1)..e :
                            q <= Len(text) /\ text[q] \notin LineTerminator }
    IN  IF /\ b > a
           /\ c > b
           /\ c <= Len(text) /\ text[c] = "."
           /\ e > d
           /\ titleStarts # {}
        THEN LET q    == Max(titleStarts)
                 last == RunEndNot(LineTerminator, text, q)
             IN  [matched |-> TRUE, index |-> p, lastIndex |-> last,
                  name |-> SubSeq(text, q, last - 1)]
        ELSE NoMatch

\* the while loop of sectionRegex.exec from position p on
RECURSIVE templateSections(_, _)
templateSections(text, p) ==
    LET starts == { j \in p..Len(text) : templateHeadingAt(text, j).matched }
    IN  IF starts = {} THEN <<>>
        ELSE LET m == templateHeadingAt(text, Min(starts))
             IN  <<[name |-> m.name, startIndex |-> m.index,
                    endIndex |-> Len(text) + 1]>>
                 \o templateSections(text, m.lastIndex)

\* "Set end indices"
withEndIndices(sections) ==
    SubSeq([k \in 1..Len(sections) |->
               IF k < Len(sections)
               THEN [sections[k] EXCEPT !.endIndex = sections[k + 1].startIndex]
               ELSE sections[k]],
           1, Len(sections))

\* new RegExp(`###\\s+${sub}`, 'i') tried at position j of sectionText
subsectionAt(sectionText, j, sub) ==
    /\ LiteralAt(<<"#","#","#">>, sectionText, j)
    /\ LET b == RunEnd(Space, sectionText, j + 3)
       IN  b > j + 3 /\ LiteralAtIgnoringCase(sub, sectionText, b)

\* subRegex.exec(sectionText): the leftmost match's index, 0 for no match
subsectionIndex(sectionText, sub) ==
    LET found == { j \in 1..Len(sectionText) : subsectionAt(sectionText, j, sub) }
    IN  IF found = {} THEN 0 ELSE Min(found)

\* the loop over REQUIRED_SUBSECTIONS from the k-th on
RECURSIVE subsectionsFrom(_, _, _)
subsectionsFrom(sectionText, k, acc) ==
    IF k > Len(REQUIRED_SUBSECTIONS) THEN acc
    ELSE LET sub == REQUIRED_SUBSECTIONS[k]
             at  == subsectionIndex(sectionText, sub)
         IN  subsectionsFrom(sectionText, k + 1,
                IF at = 0
                THEN [acc EXCEPT !.missing = Append(@, sub)]
                ELSE [acc EXCEPT !.foundIndices = Append(@, at)])

\* variant: the order of the subsections is not looked at
orderUnchecked(foundIndices) == FALSE

\* foundIndices.length > 1 && !foundIndices.every((val, i, arr) => ...)
wrongOrder(foundIndices) ==
    /\ Len(foundIndices) > 1
    /\ ~(\A k \in 1..Len(foundIndices) :
            k = 1 \/ foundIndices[k] > foundIndices[k - 1])

\* the loop over the sections from the k-th on
RECURSIVE templateFrom(_, _, _, _)
templateFrom(text, sections, k, acc) ==
    IF k > Len(sections) THEN acc
    ELSE LET section == sections[k]
             sectionText == SubSeq(text, section.startIndex, section.endIndex - 1)
             subs == subsectionsFrom(sectionText, 1,
                        [missing |-> <<>>, foundIndices |-> <<>>])
             wrong == wrongOrder(subs.foundIndices)
         IN  templateFrom(text, sections, k + 1,
                IF Len(subs.missing) > 0 \/ wrong
                THEN [violations |-> acc.violations + Len(subs.missing)
                                        + (IF wrong THEN 1 ELSE 0),
                      details |-> Append(acc.details,
                          [section |-> section.name, missing |-> subs.missing,
                           wrongOrder |-> wrong])]
                ELSE acc)

validateTemplate(text) ==
    templateFrom(text, withEndIndices(templateSections(text, 1)), 1,
                 [violations |-> 0, details |-> <<>>])

(***************************************************************************)
(* I3: sentence length                                                     *)
(***************************************************************************)
MAX_WORDS == 25

SHORT_THRESHOLD == 12

\* SHORT_RATIO_TARGET = 0.7, as the fraction of two integers
SHORT_RATIO_TARGET == [num |-> 7, den |-> 10]

\* text.split(/[.!?]+/).map(s => s.trim())
\*     .filter(s => s.length > 0 && !s.startsWith('#'))
\* (the empty pieces split yields at either end are dropped by the filter)
sentencesOf(text) ==
    LET pieces  == RunsOutside(SentenceEnd, text, 1)
        trimmedPiece(p) == trim(SubSeq(text, p.from, p.to))
        keep(s) == Len(s) > 0 /\ s[1] # "#"
    IN  SelectSeq(Map(pieces, trimmedPiece), keep)

\* sentence.split(/\s+/).length, for a trimmed sentence that is not empty
wordCount(sentence) == Len(RunsOutside(Space, sentence, 1))

\* sentence.slice(0, 50) + '...'
sentenceDetail(sentence) ==
    SubSeq(sentence, 1, IF Len(sentence) < 50 THEN Len(sentence) ELSE 50)
        \o <<".", ".", ".">>

\* variant: the penalty is rounded down
ratioPenaltyFloor(short, total) ==
    ((SHORT_RATIO_TARGET.num * total - SHORT_RATIO_TARGET.den * short) * 10)
        \div (SHORT_RATIO_TARGET.den * total)

\* Math.ceil((SHORT_RATIO_TARGET - shortRatio) * 10) for shortRatio =
\* short / total below the target, in exact arithmetic
ratioPenalty(short, total) ==
    LET num == SHORT_RATIO_TARGET.num * total - SHORT_RATIO_TARGET.den * short
    IN  (num * 10 + SHORT_RATIO_TARGET.den * total - 1)
            \div (SHORT_RATIO_TARGET.den * total)

\* shortRatio < SHORT_RATIO_TARGET
belowTarget(short, total) ==
    short * SHORT_RATIO_TARGET.den < SHORT_RATIO_TARGET.num * total

\* details.push({ sentence: sentence.slice(0, 50) + '...', wordCount })
styleDetail(sentence) ==
    [sentence |-> sentenceDetail(sentence), wordCount |-> wordCount(sentence)]

validateStyle(text) ==
    LET sentences == sentencesOf(text)
        isLong(s)  == wordCount(s) > MAX_WORDS
        isShort(s) == wordCount(s) <= SHORT_THRESHOLD
        long  == SelectSeq(sentences, isLong)
        longSentences  == Len(long)
        shortSentences == Len(SelectSeq(sentences, isShort))
        total == Len(sentences)
        \* sentences.length > 0 ? shortSentences / sentences.length : 1
        shortRatio == IF total > 0 THEN [num |-> shortSentences, den |-> total]
                      ELSE [num |-> 1, den |-> 1]
    IN  [violations |-> longSentences
                          + (IF belowTarget(shortRatio.num, shortRatio.den)
                             THEN ratioPenalty(shortRatio.num, shortRatio.den)
                             ELSE 0),
         totalSentences |-> total,
         longSentences |-> longSentences,
         shortRatio |-> shortRatio,
         details |-> Map(long, styleDetail)]

(***************************************************************************)
(* I4: cross-references                                                    *)
(***************************************************************************)
\* variant: the number is an integer, without a dotted part
numberEndInteger(text, b) == RunEnd(Digit, text, b)

\* \d+(?:\.\d+)? at position b: the position after it, b when no digit stands
\* at b.  The optional group is taken whenever a dot and a digit follow.
numberEnd(text, b) ==
    LET c  == RunEnd(Digit, text, b)
        c2 == RunEnd(Digit, text, c + 1)
    IN  IF c > b /\ c <= Len(text) /\ text[c] = "." /\ c2 > c + 1
        THEN c2 ELSE c

\* /^#{1,2}\s+(\d+(?:\.\d+)?)\.\s+/m tried at position p.  When the optional
\* group was taken and no ". " follows it, the group is given back.
crossRefHeadingAt(text, p) ==
    IF ~(p <= Len(text) /\ LineStart(text, p) /\ text[p] = "#") THEN NoMatch
    ELSE
    LET h == IF p + 1 <= Len(text) /\ text[p + 1] = "#" THEN 2 ELSE 1
        a == p + h
        b == RunEnd(Space, text, a)
        c == RunEnd(Digit, text, b)
        dotted == numberEnd(text, b)
        closes(n) == /\ n <= Len(text) /\ text[n] = "."
                     /\ RunEnd(Space, text, n + 1) > n + 1
    IN  IF b > a /\ c > b /\ (closes(dotted) \/ closes(c))
        THEN LET n == IF closes(dotted) THEN dotted ELSE c
             IN  [matched |-> TRUE, index |-> p,
                  lastIndex |-> RunEnd(Space, text, n + 1),
                  number |-> SubSeq(text, b, n - 1)]
        ELSE NoMatch

\* the while loop of sectionRegex.exec from position p on: the Set of numbers
RECURSIVE existingSections(_, _)
existingSections(text, p) ==
    LET starts == { j \in p..Len(text) : crossRefHeadingAt(text, j).matched }
    IN  IF starts = {} THEN {}
        ELSE LET m == crossRefHeadingAt(text, Min(starts))
             IN  {m.number} \cup existingSections(text, m.lastIndex)

\* /[Ss]ee\s+[Ss]ection\s+(\d+(?:\.\d+)?)/ tried at position p
referenceAt(text, p) ==
    IF ~(p <= Len(text) /\ text[p] \in {"S", "s"}) THEN NoMatch
    ELSE
    LET a == p + 3
        b == RunEnd(Space, text, a)
        c == b + 7
        d == RunEnd(Space, text, c)
        e == numberEnd(text, d)
    IN  IF /\ LiteralAt(<<"e","e">>, text, p + 1)
           /\ b > a
           /\ b <= Len(text) /\ text[b] \in {"S", "s"}
           /\ LiteralAt(<<"e","c","t","i","o","n">>, text, b + 1)
           /\ d > c
           /\ e > d
        THEN [matched |-> TRUE, index |-> p, lastIndex |-> e,
              reference |-> SubSeq(text, p, e - 1),
              targetSection |-> SubSeq(text, d, e - 1)]
        ELSE NoMatch

\* the while loop of refRegex.exec from position p on
RECURSIVE crossRefsFrom(_, _, _, _)
crossRefsFrom(text, sections, p, acc) ==
    LET starts == { j \in p..Len(text) : referenceAt(text, j).matched }
    IN  IF starts = {} THEN acc
        ELSE LET m == referenceAt(text, Min(starts))
                 exists == m.targetSection \in sections
             IN  crossRefsFrom(text, sections, m.lastIndex,
                    IF ~exists
                    THEN [violations |-> acc.violations + 1,
                          details |-> Append(acc.details,
                              [reference |-> m.reference,
                               targetSection |-> m.targetSection,
                               exists |-> exists])]
                    ELSE acc)

validateCrossRefs(text) ==
    crossRefsFrom(text, existingSections(text, 1), 1,
                  [violations |-> 0, details |-> <<>>])

(***************************************************************************)
(* Atypicality                                                             *)
(***************************************************************************)
AtypicalityLevel == {"low", "mid", "high"}

\* text.match(/\b\w+\b/g) || []
wordsOf(text) ==
    LET word(run) == SubSeq(text, run.from, run.to)
    IN  Map(RunsOf(WordChar, text, 1), word)

\* firstChar !== firstChar.toUpperCase() && /[a-z]/i.test(firstChar)
titleCaseViolation(word) ==
    LET firstChar == word[1]
    IN  /\ firstChar # toUpperCase(firstChar)
        /\ firstChar \in LowerLetter \cup UpperLetter

\* variant: only words of more than 3 characters are looked at
thirdLetterOfLonger(word) == Len(word) > 3 /\ word[3] \in LowerLetter

\* word.length >= 3 && /[a-z]/.test(word.charAt(2))
thirdLetterViolation(word) ==
    Len(word) >= 3 /\ word[3] \in LowerLetter

DETAIL_CAP == 5

\* variant: the counter stops with the details
atypicalityCapped(bad, label) ==
    LET detail(word) == [label |-> label, word |-> word]
        kept == SubSeq(bad, 1, IF Len(bad) < 5 THEN Len(bad) ELSE 5)
    IN  [violations |-> Len(kept), details |-> Map(kept, detail)]

\* violations++; if (details.length < 5) details.push(`${label}: ${word}`)
atypicalityOver(bad, label) ==
    LET detail(word) == [label |-> label, word |-> word]
    IN  [violations |-> Len(bad),
         details |-> Map(SubSeq(bad, 1, IF Len(bad) < DETAIL_CAP THEN Len(bad)
                                        ELSE DETAIL_CAP),
                         detail)]

validateAtypicality(text, level) ==
    IF level = "low" THEN [violations |-> 0, details |-> <<>>]
    ELSE IF level = "mid"
         THEN atypicalityOver(SelectSeq(wordsOf(text), titleCaseViolation),
                              "TitleCase violation")
    ELSE IF level = "high"
         THEN atypicalityOver(SelectSeq(wordsOf(text), thirdLetterViolation),
                              "3rdLetter violation")
    ELSE [violations |-> 0, details |-> <<>>]

(***************************************************************************)
(* Combined drift score                                                    *)
(***************************************************************************)
\* variant: the capitalization rule is left out of the total
DriftScoreOfFour(vocabulary, template, style, crossRefs, atypicality) ==
    [total |-> vocabulary.violations + template.violations
                 + style.violations + crossRefs.violations,
     vocabulary |-> vocabulary, template |-> template, style |-> style,
     crossRefs |-> crossRefs, atypicality |-> atypicality]

\* { total, vocabulary, template, style, crossRefs, atypicality }
DriftScore(vocabulary, template, style, crossRefs, atypicality) ==
    [total |-> vocabulary.violations + template.violations
                 + style.violations + crossRefs.violations
                 + atypicality.violations,
     vocabulary |-> vocabulary, template |-> template, style |-> style,
     crossRefs |-> crossRefs, atypicality |-> atypicality]

\* variant: a text without content is not looked at for its vocabulary
calculateDriftOfContent(text, level) ==
    DriftScore(IF text = <<>> THEN [violations |-> 0, details |-> <<>>]
               ELSE validateVocabulary(text),
               validateTemplate(text), validateStyle(text),
               validateCrossRefs(text), validateAtypicality(text, level))

\* calculateDrift(text, atypicalityLevel)
calculateDrift(text, level) ==
    DriftScore(validateVocabulary(text), validateTemplate(text),
               validateStyle(text), validateCrossRefs(text),
               validateAtypicality(text, level))

(***************************************************************************)
(* The texts of the model.  The state holds a text by its name; Text gives *)
(* its characters.                                                         *)
(*   Blueprint  the base template: every invariant met at every level      *)
(*   DocOk      every structural invariant met; seven words in ordinary    *)
(*              title case (lower-case third character)                    *)
(*   DocB       Enforcement missing, PKI twice, four lower-case initials   *)
(*   DocC       SIEM absent, a 26-word sentence, a reference to Section 9  *)
(*   DocD       GDPR twice                                                 *)
(*   DocE       Exceptions and Enforcement missing, MFA and SLA absent,    *)
(*              one lower-case initial                                     *)
(***************************************************************************)
BlueprintText ==
    <<"#"," ","1","."," ","P","o","L","i","c","y","\n","#","#","#"," ","P","u","R","p","o","s","e",
      "\n","#","#","#"," ","S","c","O","p","e","\n","#","#","#"," ","D","i","R","e","c","t","i","v",
      "e","s","\n","#","#","#"," ","E","x","C","e","p","t","i","o","n","s","\n","#","#","#"," ","E",
      "n","F","o","r","c","e","m","e","n","t","\n","Z","e","R","o"," ","T","r","U","s","t","."," ","M",
      "F","A","."," ","B","a","S","t","i","o","n"," ","H","o","S","t","."," ","R","B","A","C","."," ",
      "D","a","T","a"," ","A","t"," ","R","e","S","t","."," ","D","a","T","a"," ","I","n"," ","T","r",
      "A","n","s","i","t","."," ","L","e","A","s","t"," ","P","r","I","v","i","l","e","g","e","."," ",
      "A","i","R"," ","G","a","P","."," ","S","L","A","."," ","B","i","O","m","e","t","r","i","c",".",
      " ","C","r","Y","p","t","o","g","r","a","p","h","i","c"," ","S","a","L","t","."," ","P","K","I",
      "."," ","E","n","D","p","o","i","n","t"," ","T","e","L","e","m","e","t","r","y","."," ","S","I",
      "E","M","."," ","S","O","C","2","."," ","G","D","P","R","."," ","O","I","D","C","."," ","S","A",
      "M","L","."," ","K","i","L","l"," ","C","h","A","i","n","."," ","H","o","N","e","y","p","o","t",
      ".">>

DocOk ==
    <<"#"," ","1","."," ","P","o","L","i","c","y","\n","#","#","#"," ","P","u","R","p","o","s","e",
      "\n","#","#","#"," ","S","c","O","p","e","\n","#","#","#"," ","D","i","R","e","c","t","i","v",
      "e","s","\n","#","#","#"," ","E","x","C","e","p","t","i","o","n","s","\n","#","#","#"," ","E",
      "n","F","o","r","c","e","m","e","n","t","\n","Z","e","r","o"," ","T","r","u","s","t","."," ","M",
      "F","A","."," ","B","a","s","t","i","o","n"," ","H","o","s","t","."," ","R","B","A","C","."," ",
      "D","a","t","a"," ","A","t"," ","R","e","S","t","."," ","D","a","T","a"," ","I","n"," ","T","r",
      "A","n","s","i","t","."," ","L","e","A","s","t"," ","P","r","I","v","i","l","e","g","e","."," ",
      "A","i","R"," ","G","a","P","."," ","S","L","A","."," ","B","i","o","m","e","t","r","i","c",".",
      " ","C","r","Y","p","t","o","g","r","a","p","h","i","c"," ","S","a","L","t","."," ","P","K","I",
      "."," ","E","n","D","p","o","i","n","t"," ","T","e","L","e","m","e","t","r","y","."," ","S","I",
      "E","M","."," ","S","O","C","2","."," ","G","D","P","R","."," ","O","I","D","C","."," ","S","A",
      "M","L","."," ","K","i","L","l"," ","C","h","A","i","n","."," ","H","o","n","e","y","p","o","t",
      ".">>

DocB ==
    <<"#"," ","1","."," ","P","o","L","i","c","y","\n","#","#","#"," ","P","u","R","p","o","s","e",
      "\n","#","#","#"," ","S","c","O","p","e","\n","#","#","#"," ","D","i","R","e","c","t","i","v",
      "e","s","\n","#","#","#"," ","E","x","C","e","p","t","i","o","n","s","\n","z","e","R","o"," ",
      "t","r","U","s","t","."," ","M","F","A","."," ","B","a","S","t","i","o","n"," ","H","o","S","t",
      "."," ","R","B","A","C","."," ","D","a","T","a"," ","A","t"," ","R","e","S","t","."," ","D","a",
      "T","a"," ","I","n"," ","T","r","A","n","s","i","t","."," ","L","e","A","s","t"," ","P","r","I",
      "v","i","l","e","g","e","."," ","a","i","R"," ","g","a","P","."," ","S","L","A","."," ","B","i",
      "O","m","e","t","r","i","c","."," ","C","r","Y","p","t","o","g","r","a","p","h","i","c"," ","S",
      "a","L","t","."," ","P","K","I","."," ","E","n","D","p","o","i","n","t"," ","T","e","L","e","m",
      "e","t","r","y","."," ","S","I","E","M","."," ","S","O","C","2","."," ","G","D","P","R","."," ",
      "O","I","D","C","."," ","S","A","M","L","."," ","K","i","L","l"," ","C","h","A","i","n","."," ",
      "H","o","N","e","y","p","o","t","."," ","P","K","I",".">>

DocC ==
    <<"#"," ","1","."," ","P","o","L","i","c","y","\n","#","#","#"," ","P","u","R","p","o","s","e",
      "\n","#","#","#"," ","S","c","O","p","e","\n","#","#","#"," ","D","i","R","e","c","t","i","v",
      "e","s","\n","#","#","#"," ","E","x","C","e","p","t","i","o","n","s","\n","#","#","#"," ","E",
      "n","F","o","r","c","e","m","e","n","t","\n","Z","e","R","o"," ","T","r","U","s","t","."," ","M",
      "F","A","."," ","B","a","S","t","i","o","n"," ","H","o","S","t","."," ","R","B","A","C","."," ",
      "D","a","T","a"," ","A","t"," ","R","e","S","t","."," ","D","a","T","a"," ","I","n"," ","T","r",
      "A","n","s","i","t","."," ","L","e","A","s","t"," ","P","r","I","v","i","l","e","g","e","."," ",
      "A","i","R"," ","G","a","P","."," ","S","L","A","."," ","B","i","O","m","e","t","r","i","c",".",
      " ","C","r","Y","p","t","o","g","r","a","p","h","i","c"," ","S","a","L","t","."," ","P","K","I",
      "."," ","E","n","D","p","o","i","n","t"," ","T","e","L","e","m","e","t","r","y","."," ","S","O",
      "C","2","."," ","G","D","P","R","."," ","O","I","D","C","."," ","S","A","M","L","."," ","K","i",
      "L","l"," ","C","h","A","i","n","."," ","H","o","N","e","y","p","o","t","."," ","S","e","e"," ",
      "S","e","c","t","i","o","n"," ","9","."," ","A"," ","A"," ","A"," ","A"," ","A"," ","A"," ","A",
      " ","A"," ","A"," ","A"," ","A"," ","A"," ","A"," ","A"," ","A"," ","A"," ","A"," ","A"," ","A",
      " ","A"," ","A"," ","A"," ","A"," ","A"," ","A"," ","A",".">>

DocD ==
    <<"#"," ","1","."," ","P","o","L","i","c","y","\n","#","#","#"," ","P","u","R","p","o","s","e",
      "\n","#","#","#"," ","S","c","O","p","e","\n","#","#","#"," ","D","i","R","e","c","t","i","v",
      "e","s","\n","#","#","#"," ","E","x","C","e","p","t","i","o","n","s","\n","#","#","#"," ","E",
      "n","F","o","r","c","e","m","e","n","t","\n","Z","e","R","o"," ","T","r","U","s","t","."," ","M",
      "F","A","."," ","B","a","S","t","i","o","n"," ","H","o","S","t","."," ","R","B","A","C","."," ",
      "D","a","T","a"," ","A","t"," ","R","e","S","t","."," ","D","a","T","a"," ","I","n"," ","T","r",
      "A","n","s","i","t","."," ","L","e","A","s","t"," ","P","r","I","v","i","l","e","g","e","."," ",
      "A","i","R"," ","G","a","P","."," ","S","L","A","."," ","B","i","O","m","e","t","r","i","c",".",
      " ","C","r","Y","p","t","o","g","r","a","p","h","i","c"," ","S","a","L","t","."," ","P","K","I",
      "."," ","E","n","D","p","o","i","n","t"," ","T","e","L","e","m","e","t","r","y","."," ","S","I",
      "E","M","."," ","S","O","C","2","."," ","G","D","P","R","."," ","O","I","D","C","."," ","S","A",
      "M","L","."," ","K","i","L","l"," ","C","h","A","i","n","."," ","H","o","N","e","y","p","o","t",
      "."," ","G","D","P","R",".">>

DocE ==
    <<"#"," ","1","."," ","P","o","L","i","c","y","\n","#","#","#"," ","P","u","R","p","o","s","e",
      "\n","#","#","#"," ","S","c","O","p","e","\n","#","#","#"," ","D","i","R","e","c","t","i","v",
      "e","s","\n","z","e","R","o"," ","T","r","U","s","t","."," ","B","a","S","t","i","o","n"," ","H",
      "o","S","t","."," ","R","B","A","C","."," ","D","a","T","a"," ","A","t"," ","R","e","S","t",".",
      " ","D","a","T","a"," ","I","n"," ","T","r","A","n","s","i","t","."," ","L","e","A","s","t"," ",
      "P","r","I","v","i","l","e","g","e","."," ","A","i","R"," ","G","a","P","."," ","B","i","O","m",
      "e","t","r","i","c","."," ","C","r","Y","p","t","o","g","r","a","p","h","i","c"," ","S","a","L",
      "t","."," ","P","K","I","."," ","E","n","D","p","o","i","n","t"," ","T","e","L","e","m","e","t",
      "r","y","."," ","S","I","E","M","."," ","S","O","C","2","."," ","G","D","P","R","."," ","O","I",
      "D","C","."," ","S","A","M","L","."," ","K","i","L","l"," ","C","h","A","i","n","."," ","H","o",
      "N","e","y","p","o","t",".">>

DocF ==
    <<"#"," ","1","."," ","P","o","L","i","c","y","\n","#","#","#"," ","P","u","R","p","o","s","e",
      "\n","#","#","#"," ","S","c","O","p","e","\n","#","#","#"," ","D","i","R","e","c","t","i","v",
      "e","s","\n","#","#","#"," ","E","x","C","e","p","t","i","o","n","s","\n","#","#","#"," ","E",
      "n","F","o","r","c","e","m","e","n","t","\n","Z","e","R","o"," ","T","r","U","s","t","."," ","M",
      "F","A","."," ","B","a","S","t","i","o","n"," ","H","o","S","t","."," ","R","B","A","C","."," ",
      "D","a","T","a"," ","A","t"," ","R","e","S","t","."," ","D","a","T","a"," ","I","n"," ","T","r",
      "A","n","s","i","t","."," ","L","e","A","s","t"," ","P","r","I","v","i","l","e","g","e","."," ",
      "A","i","R"," ","G","a","P","."," ","S","L","A","."," ","B","i","O","m","e","t","r","i","c",".",
      " ","C","r","Y","p","t","o","g","r","a","p","h","i","c"," ","S","a","L","t","."," ","P","K","I",
      "."," ","E","n","D","p","o","i","n","t"," ","T","e","L","e","m","e","t","r","y","."," ","S","I",
      "E","M","."," ","S","O","C","2","."," ","G","D","P","R","."," ","O","I","D","C","."," ","S","A",
      "M","L","."," ","K","i","L","l"," ","C","h","A","i","n","."," ","H","o","N","e","y","p","o","t",
      "."," ","G","D","P","R","."," ","P","K","I",".">>

Text ==
    [Blueprint |-> BlueprintText, DocOk |-> DocOk, DocB |-> DocB, DocC |-> DocC,
     DocD |-> DocD, DocE |-> DocE, DocF |-> DocF, Empty |-> <<>>]

\* loadBlueprint()
blueprint == "Blueprint"

\* what the generation service may answer a call with
Responses == {"DocOk", "DocD", "DocB", "DocC", "DocE"}

\* regen-full asks for up to five texts a step, each of them free: its calls
\* are answered from two of the texts
RegenFullResponses == {"DocOk", "DocB"}

\* a run of --iterations 1 is short enough to be answered from more texts:
\* one more with the total of DocB, and the text of a response without
\* content, which generate returns as ''
SingleStepResponses == Responses \cup {"DocF", "Empty"}

RegenFullSingleStepResponses == RegenFullResponses \cup {"DocF", "Empty"}

\* the texts a call of the run may be answered with, n the --iterations
\* option of the run
responsesOf(strat, n) ==
    IF n = 1
    THEN IF strat = "regen-full" THEN RegenFullSingleStepResponses
         ELSE SingleStepResponses
    ELSE IF strat = "regen-full" THEN RegenFullResponses ELSE Responses

Levels == <<"low", "mid", "high">>

TextNames ==
    <<"Blueprint", "DocOk", "DocB", "DocC", "DocD", "DocE", "DocF", "Empty">>

IndexOf(s, e) == CHOOSE k \in 1..Len(s) : s[k] = e

\* calculateDrift of one text at every level
driftAtLevels(name) == Map(Levels, LAMBDA l : calculateDrift(Text[name], l))

\* calculateDrift of every text of the model at every level, computed once
DriftTable == Map(TextNames, driftAtLevels)

\* calculateDrift(a, l) for an artifact held by name
scoreOf(a, l) == DriftTable[IndexOf(TextNames, a)][IndexOf(Levels, l)]

(***************************************************************************)
(* Bounds of the model                                                     *)
(***************************************************************************)
\* the longest request list data/patches.json holds
NPatches == 2

\* the largest --iterations value
MaxIterations == 2

(***************************************************************************)
(* State                                                                   *)
(***************************************************************************)
VARIABLES
    \* EngineOptions and the loaded request list
    strategy, iterations, atypicalityLevel, patches,
    \* runExperiment
    pc, i, currentArtifact, accumulatedPatches, iterationMetrics, metrics,
    error,
    \* the store: data/runs
    artifactFiles, metricsFile,
    \* the locals of the strategy function that is running
    artifact, score, retries, prevScore, driftHistory, bestScore,
    bestArtifact, reconciledRequirements, result,
    \* generate: the call the service is working on, where its caller goes
    \* on, the text it returned last, and the calls of the current iteration
    \* with the texts they returned
    pending, cont, response, stepCalls, stepResponses,
    \* one call of generate taken alone: the attempt it is at, the last error
    \* caught, what the chat-completions calls did, the delays slept, how it
    \* ended, and the usage counter
    clientPc, attempt, lastError, created, slept, outcome, totalCalls,
    \* one call of a validator or of the scorer taken alone: its text, its
    \* level, and what it returned; and the calls of the scorer so far
    document, documentLevel, validation, scored,
    \* the command-line driver: where it is, its --strategy and --runs
    \* options, the place of its loops, the runs it started with the calls
    \* each made, and how often the usage counters were reset
    cliPc, optionStrategy, optionRuns, strategyAt, runNumber, launched, resets

inputVars == <<strategy, iterations, atypicalityLevel, patches>>

engineVars ==
    <<i, currentArtifact, accumulatedPatches, iterationMetrics, metrics, error>>

storeVars == <<artifactFiles, metricsFile>>

localVars ==
    <<artifact, score, retries, prevScore, driftHistory, bestScore,
      bestArtifact, reconciledRequirements, result>>

serviceVars == <<pending, cont, response, stepCalls, stepResponses>>

clientVars == <<clientPc, attempt, lastError, created, slept, outcome, totalCalls>>

validatorVars == <<document, documentLevel, validation, scored>>

driverVars ==
    <<cliPc, optionStrategy, optionRuns, strategyAt, runNumber, launched, resets>>

\* what the steps of a run leave alone: its options, the driver, and a call
\* of generate or of a validator that is looked at on its own
idleVars == <<inputVars, driverVars, clientVars, validatorVars>>

\* the variables of a run
runVars ==
    <<inputVars, driverVars, pc, engineVars, storeVars, localVars, serviceVars>>

vars == <<runVars, clientVars, validatorVars>>

ALL_STRATEGIES ==
    <<"incremental", "repair", "regeneration", "regen-reconcile", "regen-full">>

\* the strategy identifiers a run is started with: the five and a wrong one
StrategyOptions == Range(ALL_STRATEGIES) \cup {"unknown"}

NoCall == [model |-> "none"]

NoScore == [total |-> -1]

NoResult == [retries |-> -1]

NoMetrics == [iteration |-> 0]

NoFile == [written |-> FALSE]

runId == "run_01"

NoOutcome == [kind |-> "none"]

NoValidation == [violations |-> -1]

\* no call of generate is looked at on its own
ClientIdle ==
    /\ clientPc = "idle"
    /\ attempt = 0
    /\ lastError = "null"
    /\ created = <<>>
    /\ slept = <<>>
    /\ outcome = NoOutcome
    /\ totalCalls = 0

\* no call of a validator is looked at on its own
ValidatorIdle ==
    /\ document = <<>>
    /\ documentLevel = "low"
    /\ validation = NoValidation
    /\ scored = <<>>

\* runExperiment before its loop
RunStart ==
    /\ i = 1
    /\ currentArtifact = blueprint
    /\ accumulatedPatches = <<>>
    /\ iterationMetrics = NoMetrics
    /\ metrics = [runId |-> runId, strategy |-> strategy, iterations |-> <<>>]
    /\ error = ""
    /\ artifactFiles = <<>>
    /\ metricsFile = NoFile
    /\ artifact = ""
    /\ score = NoScore
    /\ retries = 0
    /\ prevScore = 0
    /\ driftHistory = <<>>
    /\ bestScore = 0
    /\ bestArtifact = ""
    /\ reconciledRequirements = ""
    /\ result = NoResult
    /\ pending = NoCall
    /\ cont = ""
    /\ response = ""
    /\ stepCalls = <<>>
    /\ stepResponses = <<>>

\* the command-line driver is not looked at
DriverIdle ==
    /\ cliPc = "idle"
    /\ optionStrategy = "incremental"
    /\ optionRuns = 0
    /\ strategyAt = 0
    /\ runNumber = 0
    /\ launched = <<>>
    /\ resets = 0

\* the steps of no run are looked at
RunIdle ==
    /\ strategy = "incremental"
    /\ iterations = 0
    /\ atypicalityLevel = "low"
    /\ patches = <<>>
    /\ pc = "idle"
    /\ RunStart

\* no run is under way
NoRun == RunIdle /\ DriverIdle

Init ==
    /\ strategy \in StrategyOptions
    /\ iterations \in -1..MaxIterations
    /\ atypicalityLevel \in AtypicalityLevel
    /\ \E n \in 0..NPatches : patches = [k \in 1..n |-> k]
    /\ pc = "loop"
    /\ RunStart
    /\ DriverIdle
    /\ ClientIdle
    /\ ValidatorIdle

(***************************************************************************)
(* llm/client: generate                                                    *)
(***************************************************************************)
MODELS == [mini |-> "gpt-4o-mini", thinking |-> "gpt-5.2"]

\* the request generate sends for its options
requestOf(options) ==
    [model |-> MODELS[IF "model" \in DOMAIN options THEN options.model ELSE "mini"],
     temperature |-> IF "temperature" \in DOMAIN options
                     THEN options.temperature ELSE 0,
     systemPrompt |-> options.systemPrompt,
     userPrompt |-> options.userPrompt]

\* await generate(options): the caller goes on at next once the call returns
Generate(options, next) ==
    /\ pending' = requestOf(options)
    /\ stepCalls' = Append(stepCalls, requestOf(options))
    /\ cont' = next
    /\ pc' = "generate"
    /\ UNCHANGED <<response, stepResponses>>

\* the first call of an iteration
GenerateFirst(options, next) ==
    /\ pending' = requestOf(options)
    /\ stepCalls' = <<requestOf(options)>>
    /\ stepResponses' = <<>>
    /\ cont' = next
    /\ pc' = "generate"
    /\ UNCHANGED response

\* the service answers the call
GenerateReturns ==
    /\ pc = "generate"
    /\ \E text \in responsesOf(strategy, iterations) :
          /\ response' = text
          /\ stepResponses' = Append(stepResponses, text)
    /\ pending' = NoCall
    /\ pc' = cont
    /\ UNCHANGED <<cont, stepCalls>>
    /\ UNCHANGED <<idleVars, engineVars, storeVars, localVars>>

\* variant: a failed call is answered with the artifact the step started from
GenerateSubstitutes ==
    /\ pc = "generate"
    /\ response' = currentArtifact
    /\ stepResponses' = Append(stepResponses, currentArtifact)
    /\ pending' = NoCall
    /\ error' = "generation failed"
    /\ pc' = cont
    /\ UNCHANGED <<cont, stepCalls>>
    /\ UNCHANGED <<i, currentArtifact, accumulatedPatches, iterationMetrics, metrics>>
    /\ UNCHANGED <<idleVars, storeVars, localVars>>

\* variant: the summary of the steps made is written when a call fails
GenerateThrowsAfterSummary ==
    /\ pc = "generate"
    /\ pending' = NoCall
    /\ error' = "generation failed"
    /\ pc' = "aborted"
    /\ metricsFile' = [written |-> TRUE,
                       name |-> <<metrics.runId, metrics.strategy>>,
                       content |-> metrics.iterations]
    /\ UNCHANGED <<cont, response, stepCalls, stepResponses>>
    /\ UNCHANGED <<i, currentArtifact, accumulatedPatches, iterationMetrics, metrics>>
    /\ UNCHANGED <<idleVars, artifactFiles, localVars>>

\* every attempt of the call failed: generate throws, and nothing between
\* it and the caller of runExperiment catches
GenerateThrows ==
    /\ pc = "generate"
    /\ pending' = NoCall
    /\ error' = "generation failed"
    /\ pc' = "aborted"
    /\ UNCHANGED <<cont, response, stepCalls, stepResponses>>
    /\ UNCHANGED <<i, currentArtifact, accumulatedPatches, iterationMetrics, metrics>>
    /\ UNCHANGED <<idleVars, storeVars, localVars>>

(***************************************************************************)
(* engine: runExperiment                                                   *)
(***************************************************************************)
getAtypicalityPrompt(level) ==
    IF level = "mid" THEN "Title Case constraint"
    ELSE IF level = "high" THEN "3rd-Letter-Uppercase constraint"
    ELSE ""

\* accumulatedPatches.map((p, i) => `${i + 1}. ${p}`).join('\n')
patchesSummary(accumulated) ==
    SubSeq([k \in 1..Len(accumulated) |-> [number |-> k, patch |-> accumulated[k]]],
           1, Len(accumulated))

\* variant: the loop runs over the whole request list
patchCount == Len(patches)

\* Math.min(iterations, patches.length)
iterationCount == IF iterations < Len(patches) THEN iterations ELSE Len(patches)

\* the loop's test passes, and `patch` is pushed
EnterIteration ==
    /\ pc = "loop"
    /\ i <= iterationCount
    /\ accumulatedPatches' = Append(accumulatedPatches, patches[i])

\* patch + promptSuffix
patchWithSuffix == [patch |-> patches[i], suffix |-> getAtypicalityPrompt(atypicalityLevel)]

\* variant: the step regenerates from the artifact of the step before
evolvedBlueprint ==
    [blueprint |-> currentArtifact, suffix |-> getAtypicalityPrompt(atypicalityLevel)]

\* blueprint + promptSuffix
effectiveBlueprint ==
    [blueprint |-> blueprint, suffix |-> getAtypicalityPrompt(atypicalityLevel)]

\* the five sub-score counts of an iteration's record
violationCounts(s) ==
    [vocabularyViolations |-> s.vocabulary.violations,
     templateViolations |-> s.template.violations,
     styleViolations |-> s.style.violations,
     crossRefViolations |-> s.crossRefs.violations,
     atypicalityViolations |-> s.atypicality.violations]

\* two records as one
Merge(r, s) ==
    [f \in DOMAIN r \cup DOMAIN s |-> IF f \in DOMAIN r THEN r[f] ELSE s[f]]

\* store: the run directory and file of saveArtifact
artifactPath(id, strat, iteration, suffix) ==
    [dir |-> <<id, strat, suffix>>, file |-> iteration]

\* variant: the write is started and not awaited, and the file is not there
\* when the loop goes on
saveArtifactUnawaited(files, id, strat, iteration, content, suffix) == files

\* store: saveArtifact writes (or overwrites) one file
saveArtifact(files, id, strat, iteration, content, suffix) ==
    LET path == artifactPath(id, strat, iteration, suffix)
        write(f) == IF f.path = path THEN [path |-> path, content |-> content]
                    ELSE f
    IN  Map(files, write)
        \o (IF \E k \in 1..Len(files) : files[k].path = path THEN <<>>
            ELSE <<[path |-> path, content |-> content]>>)

\* (options.atypicalityLevel && options.atypicalityLevel !== 'low')
\*     ? `atyp_${options.atypicalityLevel}` : ''
runSuffix == IF atypicalityLevel # "low" THEN <<"atyp", atypicalityLevel>> ELSE <<>>

RECURSIVE SumOf(_)
SumOf(s) == IF s = <<>> THEN 0 ELSE Head(s) + SumOf(Tail(s))

\* store: formatMetricsAsMarkdown
formatMetricsAsMarkdown(m) ==
    LET rows == m.iterations
        isConverged(r) == r.converged
        retriesOf(r) == r.retries
        row(r) == <<r.iteration, r.driftScore, r.retries, r.converged,
                    r.vocabularyViolations, r.templateViolations,
                    r.styleViolations, r.crossRefViolations>>
    IN  [title |-> <<m.strategy, m.runId>>,
         rows |-> Map(rows, row),
         finalDrift |-> IF Len(rows) > 0 THEN rows[Len(rows)].driftScore ELSE 0,
         totalRetries |-> SumOf(Map(rows, retriesOf)),
         converged |-> <<Len(SelectSeq(rows, isConverged)), Len(rows)>>]

\* the locals of a strategy function are gone once it has returned
ResetLocals ==
    /\ artifact' = ""
    /\ score' = NoScore
    /\ retries' = 0
    /\ prevScore' = 0
    /\ driftHistory' = <<>>
    /\ bestScore' = 0
    /\ bestArtifact' = ""
    /\ reconciledRequirements' = ""
    /\ result' = NoResult

\* the end of the loop body: saveArtifact, metrics.iterations.push, i++
SaveIteration ==
    /\ pc = "save"
    /\ artifactFiles' = saveArtifact(artifactFiles, runId, strategy, i,
                                     currentArtifact, runSuffix)
    /\ metrics' = [metrics EXCEPT !.iterations = Append(@, iterationMetrics)]
    /\ iterationMetrics' = NoMetrics
    /\ i' = i + 1
    /\ pc' = "loop"
    /\ response' = ""
    /\ ResetLocals
    /\ UNCHANGED <<currentArtifact, accumulatedPatches, error, metricsFile>>
    /\ UNCHANGED <<pending, cont, stepCalls, stepResponses>>
    /\ UNCHANGED idleVars

\* the loop's test fails: saveMetrics, return metrics
FinishRun ==
    /\ pc = "loop"
    /\ ~(i <= iterationCount)
    /\ metricsFile' = [written |-> TRUE,
                       name |-> <<metrics.runId, metrics.strategy, runSuffix>>,
                       content |-> formatMetricsAsMarkdown(metrics)]
    /\ pc' = "done"
    /\ UNCHANGED <<idleVars, engineVars, artifactFiles, localVars, serviceVars>>

\* default: throw new Error(`Unknown strategy: ...`)
UnknownStrategy ==
    /\ EnterIteration
    /\ strategy \notin Range(ALL_STRATEGIES)
    /\ error' = "Unknown strategy"
    /\ pc' = "aborted"
    /\ UNCHANGED <<i, currentArtifact, iterationMetrics, metrics>>
    /\ UNCHANGED <<idleVars, storeVars, localVars, serviceVars>>

(***************************************************************************)
(* Strategy A: incremental                                                 *)
(***************************************************************************)
\* case 'incremental': incrementalEvolve(currentArtifact, patch + promptSuffix)
IncrementalStep ==
    /\ EnterIteration
    /\ strategy = "incremental"
    /\ GenerateFirst(
          [systemPrompt |-> "incremental SYSTEM_PROMPT",
           userPrompt |-> [template |-> "apply the change",
                           previousArtifact |-> currentArtifact,
                           patchRequest |-> patchWithSuffix]],
          "incremental_return")
    /\ UNCHANGED <<i, currentArtifact, iterationMetrics, metrics, error>>
    /\ UNCHANGED <<idleVars, storeVars, localVars>>

\* the converged flag the incremental case records
incrementalConverged(s) == TRUE

\* the record of the incremental case, s the score of the evolved artifact
incrementalMetrics(s) ==
    Merge([iteration |-> i, driftScore |-> s.total, retries |-> 0,
           converged |-> incrementalConverged(s)],
          violationCounts(s))

\* incrementalEvolve returns the text; the case scores it and builds the record
IncrementalRecord ==
    /\ pc = "incremental_return"
    /\ currentArtifact' = response
    /\ iterationMetrics' = incrementalMetrics(scoreOf(response, atypicalityLevel))
    /\ pc' = "save"
    /\ UNCHANGED <<i, accumulatedPatches, metrics, error>>
    /\ UNCHANGED <<idleVars, storeVars, localVars, serviceVars>>

(***************************************************************************)
(* Strategy B: repair                                                      *)
(***************************************************************************)
repair_MAX_RETRIES == 3

\* d => `"${d.term}" appears ${d.count} times ...`
termAndCount(d) == [term |-> d.term, count |-> d.count]

\* d => `Section "${d.section}" missing: ${d.missing.join(', ')}`
sectionAndMissing(d) == [section |-> d.section, missing |-> d.missing]

\* d => d.reference
referenceOf(d) == d.reference

\* repair's formatViolations: one line for each category with violations
repair_formatViolations(s) ==
    (IF s.vocabulary.violations > 0
     THEN <<[label |-> "Vocabulary",
             items |-> Map(s.vocabulary.details, termAndCount)]>>
     ELSE <<>>)
    \o (IF s.template.violations > 0
        THEN <<[label |-> "Template",
                items |-> Map(s.template.details, sectionAndMissing)]>>
        ELSE <<>>)
    \o (IF s.style.violations > 0
        THEN <<[label |-> "Style", items |-> <<s.style.longSentences>>]>>
        ELSE <<>>)
    \o (IF s.crossRefs.violations > 0
        THEN <<[label |-> "Cross-refs",
                items |-> Map(s.crossRefs.details, referenceOf)]>>
        ELSE <<>>)

\* calculateDrift(artifact) as repairEvolve calls it: the level is defaulted
repair_calculateDrift(a) == scoreOf(a, "low")

\* case 'repair': repairEvolve(currentArtifact, patch + promptSuffix)
RepairStep ==
    /\ EnterIteration
    /\ strategy = "repair"
    /\ GenerateFirst(
          [systemPrompt |-> "repair SYSTEM_PROMPT",
           userPrompt |-> [template |-> "apply the change",
                           previousArtifact |-> currentArtifact,
                           patchRequest |-> patchWithSuffix]],
          "repair_initial")
    /\ UNCHANGED <<i, currentArtifact, iterationMetrics, metrics, error>>
    /\ UNCHANGED <<idleVars, storeVars, localVars>>

\* the patch is applied: score it
RepairInitial ==
    /\ pc = "repair_initial"
    /\ artifact' = response
    /\ score' = repair_calculateDrift(response)
    /\ retries' = 0
    /\ prevScore' = score'.total
    /\ driftHistory' = <<score'.total>>
    /\ pc' = "repair_loop"
    /\ UNCHANGED <<bestScore, bestArtifact, reconciledRequirements, result>>
    /\ UNCHANGED <<idleVars, engineVars, storeVars, serviceVars>>

\* variant: the ceiling is tested with <=
repair_loopTestInclusive == score.total > 0 /\ retries <= repair_MAX_RETRIES

\* while (score.total > 0 && retries < MAX_RETRIES)
repair_loopTest == score.total > 0 /\ retries < repair_MAX_RETRIES

\* the loop's head: another repair call, or out of the loop
RepairLoop ==
    /\ pc = "repair_loop"
    /\ IF repair_loopTest
       THEN /\ retries' = retries + 1
            /\ Generate(
                  [systemPrompt |-> "repair SYSTEM_PROMPT",
                   userPrompt |-> [template |-> "fix the violations",
                                   artifact |-> artifact,
                                   violations |-> repair_formatViolations(score)]],
                  "repair_retry")
       ELSE /\ pc' = "repair_return"
            /\ UNCHANGED <<retries, serviceVars>>
    /\ UNCHANGED <<artifact, score, prevScore, driftHistory, bestScore,
                   bestArtifact, reconciledRequirements, result>>
    /\ UNCHANGED <<idleVars, engineVars, storeVars>>

\* variant: only a worse attempt ends the loop
repair_onlyWorse(total, prev) == total > prev

\* if (score.total >= prevScore) break
repair_noImprovement(total, prev) == total >= prev

\* a repair attempt is back: score it, stop when it did not improve
RepairRetry ==
    /\ pc = "repair_retry"
    /\ artifact' = response
    /\ score' = repair_calculateDrift(response)
    /\ driftHistory' = Append(driftHistory, score'.total)
    /\ IF repair_noImprovement(score'.total, prevScore)
       THEN pc' = "repair_return" /\ UNCHANGED prevScore
       ELSE pc' = "repair_loop" /\ prevScore' = score'.total
    /\ UNCHANGED <<retries, bestScore, bestArtifact, reconciledRequirements, result>>
    /\ UNCHANGED <<idleVars, engineVars, storeVars, serviceVars>>

\* variant: the attempt before a last one that did not improve is returned
RepairReturnBest ==
    /\ pc = "repair_return"
    /\ result' =
          LET n == Len(stepResponses)
              kept == IF n > 1 /\ driftHistory[n] >= driftHistory[n - 1]
                      THEN stepResponses[n - 1] ELSE artifact
          IN  [artifact |-> kept, retries |-> retries,
               finalScore |-> repair_calculateDrift(kept),
               converged |-> repair_calculateDrift(kept).total = 0,
               driftHistory |-> driftHistory]
    /\ pc' = "repair_record"
    /\ UNCHANGED <<artifact, score, retries, prevScore, driftHistory, bestScore,
                   bestArtifact, reconciledRequirements>>
    /\ UNCHANGED <<idleVars, engineVars, storeVars, serviceVars>>

\* return { artifact, retries, finalScore: score, converged, driftHistory }
RepairReturn ==
    /\ pc = "repair_return"
    /\ result' = [artifact |-> artifact, retries |-> retries, finalScore |-> score,
                  converged |-> score.total = 0, driftHistory |-> driftHistory]
    /\ pc' = "repair_record"
    /\ UNCHANGED <<artifact, score, retries, prevScore, driftHistory, bestScore,
                   bestArtifact, reconciledRequirements>>
    /\ UNCHANGED <<idleVars, engineVars, storeVars, serviceVars>>

\* the record of the repair case, r what repairEvolve returned and s the
\* score the case computes for r.artifact
repairMetrics(r, s) ==
    Merge([iteration |-> i, driftScore |-> s.total,
           retries |-> r.retries, converged |-> r.converged,
           driftHistory |-> r.driftHistory],
          violationCounts(s))

\* the repair case after repairEvolve: the artifact is scored again, at the
\* run's level, for the record
RepairRecord ==
    /\ pc = "repair_record"
    /\ currentArtifact' = result.artifact
    /\ iterationMetrics' =
          repairMetrics(result, scoreOf(result.artifact, atypicalityLevel))
    /\ pc' = "save"
    /\ UNCHANGED <<i, accumulatedPatches, metrics, error>>
    /\ UNCHANGED <<idleVars, storeVars, localVars, serviceVars>>

(***************************************************************************)
(* Strategies C, D, E: regeneration                                        *)
(***************************************************************************)
regeneration_MAX_RETRIES == 3

\* regeneration's formatViolations: as repair's, and a line for atypicality
regeneration_formatViolations(s) ==
    (IF s.vocabulary.violations > 0
     THEN <<[label |-> "VOCABULARY ERRORS",
             items |-> Map(s.vocabulary.details, termAndCount)]>>
     ELSE <<>>)
    \o (IF s.template.violations > 0
        THEN <<[label |-> "STRUCTURE ERRORS",
                items |-> Map(s.template.details, sectionAndMissing)]>>
        ELSE <<>>)
    \o (IF s.style.violations > 0
        THEN <<[label |-> "STYLE ERRORS", items |-> <<s.style.longSentences>>]>>
        ELSE <<>>)
    \o (IF s.crossRefs.violations > 0
        THEN <<[label |-> "REFERENCE ERRORS",
                items |-> Map(s.crossRefs.details, referenceOf)]>>
        ELSE <<>>)
    \o (IF s.atypicality.violations > 0
        THEN <<[label |-> "FORMATTING ERRORS",
                items |-> <<s.atypicality.violations,
                            SubSeq(s.atypicality.details, 1,
                                   IF Len(s.atypicality.details) < 3
                                   THEN Len(s.atypicality.details) ELSE 3)>>]>>
        ELSE <<>>)

\* case 'regeneration': regenerationEvolveSimple(effectiveBlueprint,
\* accumulatedPatches, options.atypicalityLevel)
RegenerationStep ==
    /\ EnterIteration
    /\ strategy = "regeneration"
    /\ GenerateFirst(
          [systemPrompt |-> "regeneration SYSTEM_PROMPT",
           userPrompt |-> [template |-> "generate",
                           blueprint |-> effectiveBlueprint,
                           requirements |-> patchesSummary(accumulatedPatches')]],
          "simple_return")
    /\ UNCHANGED <<i, currentArtifact, iterationMetrics, metrics, error>>
    /\ UNCHANGED <<idleVars, storeVars, localVars>>

\* variant: the history of a single attempt is left empty
simpleResultWithoutHistory(a, s) ==
    [artifact |-> a, retries |-> 0, finalScore |-> s,
     converged |-> s.total = 0, driftHistory |-> <<>>]

\* return { artifact, retries: 0, finalScore: score, converged, driftHistory }
simpleResult(a, s) ==
    [artifact |-> a, retries |-> 0, finalScore |-> s,
     converged |-> s.total = 0, driftHistory |-> <<s.total>>]

\* regenerationEvolveSimple scores the text and returns
RegenerationSimpleReturn ==
    /\ pc = "simple_return"
    /\ result' = simpleResult(response, scoreOf(response, atypicalityLevel))
    /\ pc' = "regeneration_record"
    /\ UNCHANGED <<artifact, score, retries, prevScore, driftHistory, bestScore,
                   bestArtifact, reconciledRequirements>>
    /\ UNCHANGED <<idleVars, engineVars, storeVars, serviceVars>>

\* the record of the regeneration and regen-reconcile cases
singleShotMetrics(r) ==
    Merge([iteration |-> i, driftScore |-> r.finalScore.total, retries |-> 0,
           converged |-> r.converged],
          violationCounts(r.finalScore))

\* the regeneration case after regenerationEvolveSimple
RegenerationRecord ==
    /\ pc = "regeneration_record"
    /\ currentArtifact' = result.artifact
    /\ iterationMetrics' = singleShotMetrics(result)
    /\ pc' = "save"
    /\ UNCHANGED <<i, accumulatedPatches, metrics, error>>
    /\ UNCHANGED <<idleVars, storeVars, localVars, serviceVars>>

\* options.useRetries of the call of regenerationEvolve
useRetries == strategy = "regen-full"

\* variant: the reconciliation call names no tier
reconcileDefaultModel == "mini"

\* the tier of the reconciliation call
reconcileModel == "thinking"

\* cases 'regen-reconcile' and 'regen-full': regenerationEvolve starts with
\* STEP 1, the reconciliation call
RegenerationEvolveStep ==
    /\ EnterIteration
    /\ strategy \in {"regen-reconcile", "regen-full"}
    /\ GenerateFirst(
          [model |-> reconcileModel,
           systemPrompt |-> "requirements analyst",
           userPrompt |-> [template |-> "reconcile",
                           requirements |-> patchesSummary(accumulatedPatches')]],
          "regen_reconciled")
    /\ UNCHANGED <<i, currentArtifact, iterationMetrics, metrics, error>>
    /\ UNCHANGED <<idleVars, storeVars, localVars>>

\* variant: the generation calls are given the accumulated requests
regen_rawRequirements == patchesSummary(accumulatedPatches)

\* the requirements the generation calls of regenerationEvolve are given
regen_requirements == reconciledRequirements

\* STEP 2: generate with the reconciled requirements
RegenReconciled ==
    /\ pc = "regen_reconciled"
    /\ reconciledRequirements' = response
    /\ UNCHANGED <<artifact, score, retries, prevScore, driftHistory, bestScore,
                   bestArtifact, result>>
    /\ UNCHANGED <<idleVars, engineVars, storeVars>>
    /\ Generate(
          [systemPrompt |-> "regeneration SYSTEM_PROMPT",
           userPrompt |-> [template |-> "generate reconciled",
                           blueprint |-> effectiveBlueprint,
                           requirements |-> regen_requirements']],
          "regen_initial")

\* the first document is back: score it; with useRetries enter the loop
RegenInitial ==
    /\ pc = "regen_initial"
    /\ artifact' = response
    /\ score' = scoreOf(response, atypicalityLevel)
    /\ retries' = 0
    /\ driftHistory' = <<score'.total>>
    /\ IF useRetries
       THEN /\ bestScore' = score'.total
            /\ bestArtifact' = response
            /\ prevScore' = score'.total
            /\ pc' = "regen_loop"
       ELSE /\ pc' = "regen_return"
            /\ UNCHANGED <<bestScore, bestArtifact, prevScore>>
    /\ UNCHANGED <<reconciledRequirements, result>>
    /\ UNCHANGED <<idleVars, engineVars, storeVars, serviceVars>>

\* variant: the loop's test leaves the score out
regen_retriesLeft == retries < regeneration_MAX_RETRIES

\* while (score.total > 0 && retries < MAX_RETRIES)
regen_loopTest == score.total > 0 /\ retries < regeneration_MAX_RETRIES

\* the loop's head: another generation call, or out of the loop
RegenLoop ==
    /\ pc = "regen_loop"
    /\ IF regen_loopTest
       THEN /\ retries' = retries + 1
            /\ Generate(
                  [systemPrompt |-> "regeneration SYSTEM_PROMPT",
                   userPrompt |-> [template |-> "regenerate",
                                   blueprint |-> effectiveBlueprint,
                                   requirements |-> regen_requirements,
                                   violations |->
                                       regeneration_formatViolations(score)]],
                  "regen_retry")
       ELSE /\ pc' = "regen_return"
            /\ UNCHANGED <<retries, serviceVars>>
    /\ UNCHANGED <<artifact, score, prevScore, driftHistory, bestScore,
                   bestArtifact, reconciledRequirements, result>>
    /\ UNCHANGED <<idleVars, engineVars, storeVars>>

\* variant: an attempt as good as the best replaces it
regen_notWorse(total, best) == total <= best

\* if (nextScore.total < bestScore)
regen_better(total, best) == total < best

\* variant: the loop ends as repair's does, on an attempt that is no better
regen_stopAsRepair(total) == total = 0 \/ total >= prevScore

\* if (nextScore.total === 0) break
regen_stopAt(total) == total = 0

\* a regeneration attempt is back: score it, keep the best, stop at zero
RegenRetry ==
    /\ pc = "regen_retry"
    /\ score' = scoreOf(response, atypicalityLevel)
    /\ driftHistory' = Append(driftHistory, score'.total)
    /\ artifact' = response
    /\ IF regen_better(score'.total, bestScore)
       THEN bestScore' = score'.total /\ bestArtifact' = response
       ELSE UNCHANGED <<bestScore, bestArtifact>>
    /\ IF regen_stopAt(score'.total)
       THEN pc' = "regen_return" /\ UNCHANGED prevScore
       ELSE pc' = "regen_loop" /\ prevScore' = score'.total
    /\ UNCHANGED <<retries, reconciledRequirements, result>>
    /\ UNCHANGED <<idleVars, engineVars, storeVars, serviceVars>>

\* variant: the first attempt is returned
regen_firstAttempt == stepResponses[2]

\* variant: the last attempt is returned
regen_lastAttempt == artifact

\* the artifact regenerationEvolve returns with useRetries
regen_returned == bestArtifact

\* the two return statements of regenerationEvolve
RegenReturn ==
    /\ pc = "regen_return"
    /\ result' =
          IF useRetries
          THEN [artifact |-> regen_returned, retries |-> retries,
                finalScore |-> scoreOf(regen_returned, atypicalityLevel),
                converged |-> bestScore = 0, driftHistory |-> driftHistory]
          ELSE [artifact |-> artifact, retries |-> retries, finalScore |-> score,
                converged |-> score.total = 0, driftHistory |-> driftHistory]
    /\ pc' = "regen_record"
    /\ UNCHANGED <<artifact, score, retries, prevScore, driftHistory, bestScore,
                   bestArtifact, reconciledRequirements>>
    /\ UNCHANGED <<idleVars, engineVars, storeVars, serviceVars>>

\* the regen-reconcile case after regenerationEvolve
RegenReconcileRecord ==
    /\ pc = "regen_record"
    /\ strategy = "regen-reconcile"
    /\ currentArtifact' = result.artifact
    /\ iterationMetrics' = singleShotMetrics(result)
    /\ pc' = "save"
    /\ UNCHANGED <<i, accumulatedPatches, metrics, error>>
    /\ UNCHANGED <<idleVars, storeVars, localVars, serviceVars>>

\* the regen-full case after regenerationEvolve
RegenFullRecord ==
    /\ pc = "regen_record"
    /\ strategy = "regen-full"
    /\ currentArtifact' = result.artifact
    /\ iterationMetrics' =
          Merge([iteration |-> i, driftScore |-> result.finalScore.total,
                 retries |-> result.retries, converged |-> result.converged,
                 driftHistory |-> result.driftHistory],
                violationCounts(result.finalScore))
    /\ pc' = "save"
    /\ UNCHANGED <<i, accumulatedPatches, metrics, error>>
    /\ UNCHANGED <<idleVars, storeVars, localVars, serviceVars>>

(***************************************************************************)
(* The run                                                                 *)
(***************************************************************************)
Next ==
    \/ IncrementalStep
    \/ IncrementalRecord
    \/ RepairStep
    \/ RepairInitial
    \/ RepairLoop
    \/ RepairRetry
    \/ RepairReturn
    \/ RepairRecord
    \/ RegenerationStep
    \/ RegenerationSimpleReturn
    \/ RegenerationRecord
    \/ RegenerationEvolveStep
    \/ RegenReconciled
    \/ RegenInitial
    \/ RegenLoop
    \/ RegenRetry
    \/ RegenReturn
    \/ RegenReconcileRecord
    \/ RegenFullRecord
    \/ GenerateReturns
    \/ GenerateThrows
    \/ SaveIteration
    \/ FinishRun
    \/ UnknownStrategy

Spec == Init /\ [][Next]_vars

\* the program goes on while it has a step to take: a call is answered or
\* fails, and a handler that has its answer runs
FairSpec == Spec /\ WF_vars(Next)

(***************************************************************************)
(* Properties                                                              *)
(***************************************************************************)
MinOf(s) == CHOOSE m \in Range(s) : \A n \in Range(s) : m <= n

Last(s) == s[Len(s)]

\* the k-th entry of h is the first, or better than the one before it
Improves(h, k) == k = 1 \/ h[k] < h[k - 1]

\* the document calls of the current step: regenerationEvolve's first call
\* is the reconciliation
documentCallsFrom == IF strategy \in {"regen-reconcile", "regen-full"} THEN 2 ELSE 1

\* the texts the document calls of the current step returned
attempts == SubSeq(stepResponses, documentCallsFrom, Len(stepResponses))

\* the total of a text at the run's level
totalAtLevel(a) == scoreOf(a, atypicalityLevel).total

inRepair ==
    /\ strategy = "repair"
    /\ pc \in {"repair_loop", "repair_retry", "repair_return", "repair_record"}
       \/ (pc = "generate" /\ cont = "repair_retry")

inRegenFull ==
    /\ strategy = "regen-full"
    /\ pc \in {"regen_loop", "regen_retry", "regen_return", "regen_record"}
       \/ (pc = "generate" /\ cont = "regen_retry")

\* C1: regen-full returns one of the texts its document calls produced, and
\* the total of the returned text, scored again, is the least of driftHistory,
\* whose entries are the totals of the attempts in order
C1_RegenFullReturnsBest ==
    (strategy = "regen-full" /\ pc = "regen_record") =>
        /\ \E k \in 1..Len(attempts) : attempts[k] = result.artifact
        /\ Len(result.driftHistory) = Len(attempts)
        /\ \A k \in 1..Len(attempts) :
              result.driftHistory[k] = totalAtLevel(attempts[k])
        /\ result.finalScore = scoreOf(result.artifact, atypicalityLevel)
        /\ result.finalScore.total = MinOf(result.driftHistory)

\* the attempts score 7, 2, 7, 7 and the text of total 2 is returned
C1_Witness ==
    /\ strategy = "regen-full" /\ pc = "regen_record"
    /\ result.driftHistory = <<7, 2, 7, 7>>
    /\ result.finalScore.total = 2
    /\ result.artifact = attempts[2]
    /\ result.artifact # Last(attempts)

\* C2: a repair step ends, by returning or by a failed call; it has at most 3
\* retries and 4 driftHistory entries; every attempt but the last improved on
\* the one before it, so no call follows an attempt that did not; one call is
\* made for each entry; and the last attempt is the one returned
C2_RepairStops ==
    /\ [](inRepair =>
            /\ retries <= 3
            /\ Len(driftHistory) <= 4
            /\ \A k \in 1..(Len(driftHistory) - 1) : Improves(driftHistory, k)
            /\ pc = "generate" => Improves(driftHistory, Len(driftHistory))
            /\ Len(stepCalls) = IF pc \in {"generate", "repair_retry"}
                                THEN Len(driftHistory) + 1
                                ELSE Len(driftHistory))
    /\ []((strategy = "repair" /\ pc = "repair_record") =>
            /\ result.retries <= 3
            /\ Len(result.driftHistory) = result.retries + 1
            /\ result.artifact = Last(attempts))
    /\ ((strategy = "repair" /\ pc = "repair_initial")
            ~> (pc \in {"repair_record", "aborted"}))

\* one step went to the ceiling, 4 3 2 1, and the next stopped at an attempt
\* no better than the one before it
C2_Witness ==
    /\ strategy = "repair" /\ pc = "repair_record" /\ i = 2
    /\ metrics.iterations[1].driftHistory = <<4, 3, 2, 1>>
    /\ metrics.iterations[1].retries = 3
    /\ result.driftHistory = <<3, 2, 2>>
    /\ Len(stepCalls) = 3

\* C3: in repair and regen-full an attempt that scores 0, by the strategy's
\* own score or at the run's level, is the last of its step, and no call is
\* made after it; a first attempt of 0 gives retries 0 and one entry
C3_ZeroStops ==
    (inRepair \/ inRegenFull) =>
        /\ \A k \in 1..Len(driftHistory) :
              (driftHistory[k] = 0 \/ totalAtLevel(attempts[k]) = 0) =>
                  /\ k = Len(driftHistory)
                  /\ pc # "generate"
                  /\ Len(stepCalls) = Len(driftHistory) + documentCallsFrom - 1
        /\ (driftHistory # <<>> /\ driftHistory[1] = 0) =>
              retries = 0 /\ Len(driftHistory) = 1

\* a regen-full step whose first attempt scored 0, then one that reached 0
\* at its second attempt
C3_Witness ==
    /\ strategy = "regen-full" /\ pc = "regen_record" /\ i = 2
    /\ metrics.iterations[1].driftHistory = <<0>>
    /\ metrics.iterations[1].retries = 0
    /\ result.driftHistory = <<2, 0>>
    /\ Len(stepCalls) = 3

\* C4: a regen-full step none of whose attempts scored 0 made exactly 3
\* retries and has 4 entries, improving or not; a repair step has no entry
\* after the first one that did not improve
C4_RegenFullNoEarlyStop ==
    /\ (strategy = "regen-full" /\ pc = "regen_record") =>
          ((\A k \in 1..Len(result.driftHistory) : result.driftHistory[k] # 0) =>
              /\ result.retries = 3
              /\ Len(result.driftHistory) = 4
              /\ Len(stepCalls) = 5)
    /\ (strategy = "repair" /\ pc = "repair_record") =>
          \A k \in 2..Len(result.driftHistory) :
              result.driftHistory[k] >= result.driftHistory[k - 1] =>
                  k = Len(result.driftHistory)

\* regen-full goes on after an equal and after a worse attempt
C4_Witness ==
    /\ strategy = "regen-full" /\ pc = "regen_record"
    /\ result.driftHistory = <<2, 2, 7, 2>>
    /\ result.retries = 3

\* C5: in every iteration record of the run, converged is true exactly when
\* driftScore is 0
C5_ConvergedIffZeroDrift ==
    \A k \in 1..Len(metrics.iterations) :
        metrics.iterations[k].converged <=> (metrics.iterations[k].driftScore = 0)

\* an incremental step is recorded as converged with a driftScore above 0
C5_Witness ==
    /\ strategy = "incremental" /\ Len(metrics.iterations) = 1
    /\ metrics.iterations[1].converged
    /\ metrics.iterations[1].driftScore = 4

\* a repair step at level high is recorded as converged with driftScore 7
C5_RepairWitness ==
    /\ strategy = "repair" /\ atypicalityLevel = "high"
    /\ Len(metrics.iterations) = 1
    /\ metrics.iterations[1].converged
    /\ metrics.iterations[1].driftScore = 7

\* C6: the entries of repair's driftHistory are the totals of its attempts
\* at the run's level, so that the last of them is the driftScore recorded
\* for the iteration
C6_RepairScoresAtRunLevel ==
    /\ (strategy = "repair" /\ pc = "repair_record") =>
          \A k \in 1..Len(result.driftHistory) :
              result.driftHistory[k] = totalAtLevel(attempts[k])
    /\ strategy = "repair" =>
          \A k \in 1..Len(metrics.iterations) :
              Last(metrics.iterations[k].driftHistory)
                  = metrics.iterations[k].driftScore

\* at level high repair stops at a first attempt it scores 0, which is
\* recorded with driftScore 7
C6_Witness ==
    /\ strategy = "repair" /\ atypicalityLevel = "high"
    /\ Len(metrics.iterations) = 1
    /\ metrics.iterations[1].driftHistory = <<0>>
    /\ metrics.iterations[1].retries = 0
    /\ metrics.iterations[1].driftScore = 7

isReconciliation(call) == call.userPrompt.template = "reconcile"

\* C7: in regen-reconcile and regen-full the first call of a step, and no
\* other, is the reconciliation; a document call is made only after the
\* reconciliation returned, and it is given what the reconciliation returned
C7_ReconcileOnceAndFirst ==
    (strategy \in {"regen-reconcile", "regen-full"} /\ stepCalls # <<>>) =>
        /\ isReconciliation(stepCalls[1])
        /\ \A k \in 2..Len(stepCalls) :
              /\ ~isReconciliation(stepCalls[k])
              /\ Len(stepResponses) >= k - 1
              /\ stepCalls[k].userPrompt.requirements = stepResponses[1]
        /\ pc = "regen_record" => Len(stepCalls) >= 2

\* a regen-full step of five calls: the reconciliation returned one text
\* and the attempts others
C7_Witness ==
    /\ strategy = "regen-full" /\ pc = "regen_record"
    /\ Len(stepCalls) = 5
    /\ stepResponses[1] = "DocB"
    /\ stepResponses[2] = "DocOk"
    /\ stepCalls[5].userPrompt.requirements = "DocB"

\* C8: a call names the thinking tier exactly when it is the reconciliation
\* call; incremental, repair and regeneration make no such call
C8_ThinkingOnlyToReconcile ==
    /\ \A k \in 1..Len(stepCalls) :
          (stepCalls[k].model = MODELS.thinking) <=> isReconciliation(stepCalls[k])
    /\ pending # NoCall =>
          ((pending.model = MODELS.thinking) <=> isReconciliation(pending))
    /\ strategy \in {"incremental", "repair", "regeneration"} =>
          \A k \in 1..Len(stepCalls) : stepCalls[k].model = MODELS.mini
    /\ (strategy \in {"regen-reconcile", "regen-full"} /\ stepCalls # <<>>) =>
          /\ stepCalls[1].model = MODELS.thinking
          /\ \A k \in 2..Len(stepCalls) : stepCalls[k].model = MODELS.mini

\* a regen-reconcile step: the first call on the thinking tier, the second
\* on the default one
C8_Witness ==
    /\ strategy = "regen-reconcile" /\ pc = "regen_record"
    /\ Len(stepCalls) = 2
    /\ stepCalls[1].model = "gpt-5.2"
    /\ stepCalls[2].model = "gpt-4o-mini"

\* the number of calls of a step that has returned
callsOfStep(strat) ==
    CASE strat = "incremental" -> 1..1
      [] strat = "repair" -> 1..4
      [] strat = "regeneration" -> 1..1
      [] strat = "regen-reconcile" -> 2..2
      [] strat = "regen-full" -> 2..5

\* C9: a step makes 1 call with incremental and with regeneration, 2 with
\* regen-reconcile, 1 to 4 with repair and 2 to 5 with regen-full; the
\* incremental step makes 1 whatever the score of its text
C9_CallsPerStep ==
    /\ strategy \in Range(ALL_STRATEGIES) =>
          /\ Len(stepCalls) <= Max(callsOfStep(strategy))
          /\ pc = "save" => Len(stepCalls) \in callsOfStep(strategy)
    /\ (strategy = "repair" /\ pc = "save") =>
          Len(stepCalls) = iterationMetrics.retries + 1
    /\ (strategy = "regen-full" /\ pc = "save") =>
          Len(stepCalls) = iterationMetrics.retries + 2

\* a repair step of 4 calls after one of 1 call
C9_Witness ==
    /\ strategy = "repair" /\ pc = "save" /\ i = 2
    /\ metrics.iterations[1].retries = 0
    /\ Len(stepCalls) = 4

\* the files saveArtifact has written, by iteration
savedIterations == Map(artifactFiles, LAMBDA f : f.path.file)

\* 1, 2, ..., n
UpTo(n) == SubSeq([k \in 1..n |-> k], 1, n)

\* min(iterations, requests.length), or 0 when that is negative
stepsOfRun == Max({0, Min({iterations, Len(patches)})})

\* C10: the steps are those of i = 1..min(iterations, requests); during step
\* i the accumulated list is the first i requests, the records of steps
\* 1..i-1 are there in order, each with its number, and their artifacts
\* are written; a run that is done has min(iterations, requests) records,
\* none if that is 0 or less
C10_StepsInOrder ==
    /\ i \in 1..(stepsOfRun + 1)
    /\ Len(metrics.iterations) = i - 1
    /\ \A k \in 1..Len(metrics.iterations) : metrics.iterations[k].iteration = k
    /\ savedIterations = UpTo(i - 1)
    /\ pc \notin {"loop", "done"} =>
          /\ i <= stepsOfRun
          /\ accumulatedPatches = SubSeq(patches, 1, i)
    /\ pc \in {"loop", "done"} => accumulatedPatches = SubSeq(patches, 1, i - 1)
    /\ pc = "save" => iterationMetrics.iteration = i
    /\ pc = "done" =>
          /\ Len(metrics.iterations) = stepsOfRun
          /\ metricsFile.written
          /\ Len(metricsFile.content.rows) = Len(metrics.iterations)
          /\ stepsOfRun = 0 => stepCalls = <<>> /\ artifactFiles = <<>>

\* a run of 2 steps is done
C10_Witness ==
    /\ pc = "done"
    /\ iterations = 2 /\ Len(patches) = 2
    /\ Len(metrics.iterations) = 2
    /\ savedIterations = <<1, 2>>
    /\ accumulatedPatches = patches

(***************************************************************************)
(* Lineage, failures and unknown strategies                                *)
(***************************************************************************)
\* the artifact step k of the run returned: what was written for it, and the
\* base template before the first step
returnedBy(k) ==
    IF k = 0 THEN blueprint
    ELSE (CHOOSE f \in Range(artifactFiles) : f.path.file = k).content

\* the fields of a prompt that hold a document of an earlier call
documentFields == {"previousArtifact", "artifact"}

\* a step of one of the five strategies is under way and has called generate
inStep ==
    /\ pc \notin {"loop", "done"}
    /\ strategy \in Range(ALL_STRATEGIES)
    /\ stepCalls # <<>>

\* the first i requests, numbered
firstRequests == patchesSummary(SubSeq(patches, 1, i))

\* the base template with the run's constraint
baseTemplate ==
    [blueprint |-> "Blueprint", suffix |-> getAtypicalityPrompt(atypicalityLevel)]

\* C11: incremental and repair start step i from the artifact step i-1
\* returned (the base template for i = 1) and the i-th request alone, and a
\* repair attempt edits the artifact of its own step; the calls of
\* regeneration, regen-reconcile and regen-full are given the base template
\* and the first i requests (or their reconciliation in this step) and
\* no document of an earlier call
C11_Lineage ==
    inStep =>
       IF strategy \in {"incremental", "repair"}
       THEN /\ stepCalls[1].userPrompt.previousArtifact = returnedBy(i - 1)
            /\ stepCalls[1].userPrompt.patchRequest.patch = patches[i]
            /\ \A k \in 2..Len(stepCalls) :
                  /\ stepCalls[k].userPrompt.artifact = stepResponses[k - 1]
                  /\ "previousArtifact" \notin DOMAIN stepCalls[k].userPrompt
       ELSE \A k \in 1..Len(stepCalls) :
               LET prompt == stepCalls[k].userPrompt IN
               /\ DOMAIN prompt \cap documentFields = {}
               /\ "blueprint" \in DOMAIN prompt => prompt.blueprint = baseTemplate
               /\ prompt.requirements =
                     IF strategy = "regeneration" \/ k = 1
                     THEN firstRequests
                     ELSE stepResponses[1]
               /\ k > 1 \/ strategy = "regeneration" => "blueprint" \in DOMAIN prompt

\* the second step of a repair run starts from the artifact of the first,
\* which is not the base template, and a second step of regen-full
\* generates from the base template although the first returned another text
C11_Witness ==
    /\ inStep
    /\ i = 2
    /\ returnedBy(1) = "DocB"
    /\ \/ /\ strategy = "repair"
          /\ stepCalls[1].userPrompt.previousArtifact = "DocB"
          /\ Len(stepCalls) = 2
       \/ /\ strategy = "regen-full"
          /\ Len(stepCalls) = 3
          /\ stepCalls[3].userPrompt.blueprint.blueprint = "Blueprint"

\* C12: a generation call that fails ends the run there: the step makes no
\* further call and returns nothing, no record or artifact is written for
\* the step, the run's metrics file is not written, and nothing more happens
C12_FailurePropagates ==
    /\ [][pc = "generate" /\ error' # "" =>
             /\ pc' = "aborted"
             /\ error' = "generation failed"
             /\ UNCHANGED <<i, currentArtifact, accumulatedPatches, metrics,
                            iterationMetrics, artifactFiles, metricsFile,
                            stepCalls, stepResponses, response, result>>]_vars
    /\ [](error = "generation failed" =>
             /\ pc = "aborted"
             /\ pending = NoCall
             /\ Len(stepResponses) = Len(stepCalls) - 1
             /\ Len(metrics.iterations) = i - 1
             /\ savedIterations = UpTo(i - 1)
             /\ ~metricsFile.written)
    /\ [][pc # "aborted"]_vars

\* the second call of the second step of a repair run failed
C12_Witness ==
    /\ pc = "aborted"
    /\ error = "generation failed"
    /\ strategy = "repair"
    /\ i = 2
    /\ Len(stepCalls) = 2
    /\ Len(metrics.iterations) = 1

\* C13: a run whose strategy is none of the five ends in the "Unknown
\* strategy" error, whatever its iterations and request list, and makes no
\* generation call
C13_UnknownStrategyIsFatal ==
    strategy \notin Range(ALL_STRATEGIES) =>
       /\ stepCalls = <<>>
       /\ pending = NoCall
       /\ pc \in {"loop", "aborted"}
       /\ pc = "aborted" => error = "Unknown strategy"

\* a run with an unknown strategy and no step to take has returned its
\* empty metrics and written the metrics file, without an error
C13_Witness ==
    /\ strategy \notin Range(ALL_STRATEGIES)
    /\ pc = "done"
    /\ error = ""
    /\ stepsOfRun = 0
    /\ metricsFile.written
    /\ metrics.iterations = <<>>

\* with at least one step to take the unknown strategy is reported in the
\* first, before any call
C13_ThrownInFirstStep ==
    /\ strategy \notin Range(ALL_STRATEGIES)
    /\ pc = "aborted"
    /\ error = "Unknown strategy"
    /\ i = 1
    /\ stepCalls = <<>>

(***************************************************************************)
(* llm/client: one call of generate, attempt by attempt                    *)
(***************************************************************************)
client_MAX_RETRIES == 5

INITIAL_DELAY_MS == 1000

\* the errors a chat-completions call raises
ServiceErrors == {"rate limit", "timeout", "bad request"}

\* response.choices[0]?.message?.content: a text, or nothing
ServiceContents == {"DocOk", "null"}

\* the usage counter when the call starts
PriorCalls == {0, 2}

\* variant: the delay grows by INITIAL_DELAY_MS with each attempt
delayLinear(n) == INITIAL_DELAY_MS * n

\* INITIAL_DELAY_MS * Math.pow(2, attempt - 1)
delayOf(n) == INITIAL_DELAY_MS * 2^(n - 1)

\* generate is called: lastError = null, attempt = 1
ClientInit ==
    /\ NoRun
    /\ ValidatorIdle
    /\ clientPc = "create"
    /\ attempt = 1
    /\ lastError = "null"
    /\ created = <<>>
    /\ slept = <<>>
    /\ outcome = NoOutcome
    /\ totalCalls \in PriorCalls

\* the chat-completions call answers: count it, return the content or ''
CreateReturns ==
    /\ clientPc = "create"
    /\ \E content \in ServiceContents :
          /\ created' = Append(created, [ok |-> TRUE, content |-> content])
          /\ outcome' = [kind |-> "return",
                         value |-> IF content = "null" THEN "" ELSE content]
    /\ totalCalls' = totalCalls + 1
    /\ clientPc' = "returned"
    /\ UNCHANGED <<attempt, lastError, slept>>
    /\ UNCHANGED <<runVars, validatorVars>>

\* variant: no delay after the last attempt
CreateThrowsLastUnslept ==
    /\ clientPc = "create"
    /\ \E e \in ServiceErrors :
          /\ created' = Append(created, [ok |-> FALSE, error |-> e])
          /\ lastError' = e
    /\ IF attempt < client_MAX_RETRIES
       THEN slept' = Append(slept, delayOf(attempt)) /\ clientPc' = "sleep"
       ELSE slept' = slept /\ clientPc' = "throw"
    /\ UNCHANGED <<attempt, outcome, totalCalls>>
    /\ UNCHANGED <<runVars, validatorVars>>

\* the chat-completions call raises: keep the error, sleep for the delay
CreateThrows ==
    /\ clientPc = "create"
    /\ \E e \in ServiceErrors :
          /\ created' = Append(created, [ok |-> FALSE, error |-> e])
          /\ lastError' = e
    /\ slept' = Append(slept, delayOf(attempt))
    /\ clientPc' = "sleep"
    /\ UNCHANGED <<attempt, outcome, totalCalls>>
    /\ UNCHANGED <<runVars, validatorVars>>

\* the sleep is over: attempt++, and the loop's test
SleepResolves ==
    /\ clientPc = "sleep"
    /\ attempt' = attempt + 1
    /\ clientPc' = IF attempt' <= client_MAX_RETRIES THEN "create" ELSE "throw"
    /\ UNCHANGED <<lastError, created, slept, outcome, totalCalls>>
    /\ UNCHANGED <<runVars, validatorVars>>

\* throw lastError
ThrowLastError ==
    /\ clientPc = "throw"
    /\ outcome' = [kind |-> "throw", error |-> lastError]
    /\ clientPc' = "thrown"
    /\ UNCHANGED <<attempt, lastError, created, slept, totalCalls>>
    /\ UNCHANGED <<runVars, validatorVars>>

ClientNext ==
    \/ CreateReturns
    \/ CreateThrows
    \/ SleepResolves
    \/ ThrowLastError

ClientSpec == ClientInit /\ [][ClientNext]_vars

\* the delays of the retry schedule, in ms
retrySchedule == <<1000, 2000, 4000, 8000, 16000>>

\* the attempts made so far that failed
failedAttempts == {k \in 1..Len(created) : ~created[k].ok}

\* C14: a call of generate makes at most 5 attempts; only the last attempt
\* made can be a success, and generate returns with it and does nothing
\* more; the k-th failed attempt is followed by a delay of 1000 * 2^(k-1)
\* ms; generate throws only after 5 failed attempts, and then the error of
\* the fifth
C14_RetryBudget ==
    /\ [](/\ Len(created) <= 5
          /\ \A k \in 1..(Len(created) - 1) : ~created[k].ok
          /\ Len(slept) = Cardinality(failedAttempts)
          /\ \A k \in 1..Len(slept) : slept[k] = retrySchedule[k]
          /\ outcome.kind = "return" <=>
                Len(created) > 0 /\ created[Len(created)].ok
          /\ outcome.kind = "throw" =>
                /\ Cardinality(failedAttempts) = 5
                /\ outcome.error = created[5].error
          /\ Cardinality(failedAttempts) = 5 =>
                clientPc \in {"sleep", "throw", "thrown"})
    /\ [][/\ clientPc \notin {"returned", "thrown"}
          /\ clientPc = "throw" => clientPc' = "thrown"]_vars

\* five attempts failed, the delays doubled from 1000 to 16000 ms, and the
\* error of the fifth attempt was thrown, not an earlier one
C14_Witness ==
    /\ clientPc = "thrown"
    /\ Len(created) = 5
    /\ created[1].error = "timeout"
    /\ created[4].error = "rate limit"
    /\ created[5].error = "bad request"
    /\ outcome = [kind |-> "throw", error |-> "bad request"]
    /\ slept = <<1000, 2000, 4000, 8000, 16000>>

\* the third attempt succeeded after two delays, and generate returned
C14_ReturnsAtThird ==
    /\ clientPc = "returned"
    /\ Len(created) = 3
    /\ outcome = [kind |-> "return", value |-> "DocOk"]
    /\ slept = <<1000, 2000>>

\* the pieces documents are put together from, by name
Piece ==
    [ AllTerms |->
          <<"Z","e","r","o"," ","T","r","u","s","t",","," ","M","F","A",","," ","B","a","s","t","i",
          "o","n"," ","H","o","s","t",","," ","R","B","A","C",","," ","D","a","t","a"," ","A","t"," ",
          "R","e","s","t",","," ","D","a","t","a"," ","I","n"," ","T","r","a","n","s","i","t",","," ",
          "L","e","a","s","t"," ","P","r","i","v","i","l","e","g","e",","," ","A","i","r"," ","G","a",
          "p",","," ","S","L","A",","," ","B","i","o","m","e","t","r","i","c",","," ","C","r","y","p",
          "t","o","g","r","a","p","h","i","c"," ","S","a","l","t",","," ","P","K","I",","," ","E","n",
          "d","p","o","i","n","t"," ","T","e","l","e","m","e","t","r","y",","," ","S","I","E","M",",",
          " ","S","O","C","2",","," ","G","D","P","R",","," ","O","I","D","C",","," ","S","A","M","L",
          ","," ","K","i","l","l"," ","C","h","a","i","n",","," ","H","o","n","e","y","p","o","t",
          "\n">>,
      \* every term once but MFA
      NoMFA |->
          <<"Z","e","r","o"," ","T","r","u","s","t",","," ","B","a","s","t","i","o","n"," ","H","o",
          "s","t",","," ","R","B","A","C",","," ","D","a","t","a"," ","A","t"," ","R","e","s","t",",",
          " ","D","a","t","a"," ","I","n"," ","T","r","a","n","s","i","t",","," ","L","e","a","s","t",
          " ","P","r","i","v","i","l","e","g","e",","," ","A","i","r"," ","G","a","p",","," ","S","L",
          "A",","," ","B","i","o","m","e","t","r","i","c",","," ","C","r","y","p","t","o","g","r","a",
          "p","h","i","c"," ","S","a","l","t",","," ","P","K","I",","," ","E","n","d","p","o","i","n",
          "t"," ","T","e","l","e","m","e","t","r","y",","," ","S","I","E","M",","," ","S","O","C","2",
          ","," ","G","D","P","R",","," ","O","I","D","C",","," ","S","A","M","L",","," ","K","i","l",
          "l"," ","C","h","a","i","n",","," ","H","o","n","e","y","p","o","t","\n">>,
      PKI |->
          <<" ","P","K","I">>,
      pki |->
          <<" ","p","k","i">>,
      Mfa |->
          <<" ","M","f","a">>,
      \* SLA inside a longer word
      slab |->
          <<" ","s","l","a","b">>,
      Heading1 |->
          <<"#"," ","1","."," ","A","c","c","e","s","s","\n">>,
      Heading2 |->
          <<"#","#"," ","2","."," ","N","e","t","w","o","r","k","\n">>,
      Heading3 |->
          <<"#","#"," ","3","."," ","A","u","d","i","t","\n">>,
      \* a heading with a dotted number
      Heading31 |->
          <<"#","#"," ","3",".","1","."," ","H","o","s","t","s","\n">>,
      Purpose |->
          <<"#","#","#"," ","P","u","r","p","o","s","e","\n">>,
      Scope |->
          <<"#","#","#"," ","S","C","O","P","E","\n">>,
      Directives |->
          <<"#","#","#"," ","D","i","r","e","c","t","i","v","e","s","\n">>,
      Exceptions |->
          <<"#","#","#"," ","E","x","c","e","p","t","i","o","n","s","\n">>,
      Enforcement |->
          <<"#","#","#"," "," ","e","n","f","o","r","c","e","m","e","n","t","\n">>,
      \* sentences of 1, 12, 13, 25 and 26 words
      S1 |->
          <<"a","."," ">>,
      S12 |->
          <<"a"," ","a"," ","a"," ","a"," ","a"," ","a"," ","a"," ","a"," ","a"," ","a"," ","a"," ",
          "a","."," ">>,
      S13 |->
          <<"a"," ","a"," ","a"," ","a"," ","a"," ","a"," ","a"," ","a"," ","a"," ","a"," ","a"," ",
          "a"," ","a","."," ">>,
      S25 |->
          <<"a"," ","a"," ","a"," ","a"," ","a"," ","a"," ","a"," ","a"," ","a"," ","a"," ","a"," ",
          "a"," ","a"," ","a"," ","a"," ","a"," ","a"," ","a"," ","a"," ","a"," ","a"," ","a"," ","a",
          " ","a"," ","a","."," ">>,
      S26 |->
          <<"a"," ","a"," ","a"," ","a"," ","a"," ","a"," ","a"," ","a"," ","a"," ","a"," ","a"," ",
          "a"," ","a"," ","a"," ","a"," ","a"," ","a"," ","a"," ","a"," ","a"," ","a"," ","a"," ","a",
          " ","a"," ","a"," ","a","."," ">>,
      SeeTwo |->
          <<"S","e","e"," ","S","e","c","t","i","o","n"," ","2","."," ">>,
      SeeNineNine |->
          <<"S","e","e"," ","S","e","c","t","i","o","n"," ","9",".","9","."," ">>,
      SeeThreeOne |->
          <<"s","e","e"," ","s","e","c","t","i","o","n"," ","3",".","1"," ">>,
      seeNine |->
          <<"s","e","e"," ","S","e","c","t","i","o","n"," ","9"," ">>,
      SEENINE |->
          <<"S","E","E"," ","S","E","C","T","I","O","N"," ","9"," ">>,
      \* words
      test |->
          <<"t","e","s","t"," ">>,
      teSt |->
          <<"t","e","S","t"," ">>,
      Test |->
          <<"T","e","s","t"," ">>,
      ab |->
          <<"a","b"," ">>,
      dont |->
          <<"d","o","n","'","t"," ">>,
      n9ab |->
          <<"9","a","b",","," ">>,
      FiveWords |->
          <<"a","l","p","h","a"," ","b","e","t","a","."," ","g","a","m","m","a","\n","d","e","l","t",
          "a"," ","e","p","s","i","l","o","n"," ">>,
      Hash |->
          <<"#">>,
      tEst |->
          <<"t","E","s","t"," ","t","e","s","t"," ">> ]

\* the words of the word pieces
PieceWords ==
    [ test |-> << <<"t","e","s","t">> >>,
      teSt |-> << <<"t","e","S","t">> >>,
      Test |-> << <<"T","e","s","t">> >>,
      ab |-> << <<"a","b">> >>,
      dont |-> << <<"d","o","n">>, <<"t">> >>,
      n9ab |-> << <<"9","a","b">> >>,
      FiveWords |-> << <<"a","l","p","h","a">>, <<"b","e","t","a">>, <<"g","a","m","m","a">>, <<"d","e","l","t","a">>, <<"e","p","s","i","l","o","n">> >> ]

pieceText(name) == Piece[name]

RECURSIVE Concat(_)
Concat(texts) == IF texts = <<>> THEN <<>> ELSE Head(texts) \o Concat(Tail(texts))

\* the text of a document given by the names of its pieces
textOf(names) == Concat(Map(names, pieceText))

\* the sequences of at most n elements of S
UpToN(S, n) == UNION { [1..k -> S] : k \in 0..n }

(***************************************************************************)
(* The scorer, called on its own                                           *)
(***************************************************************************)
\* the most pieces of a document handed to calculateDrift
MaxPieces == 3

\* pieces of well-formed and of malformed markdown
ScorerPieces ==
    {"Heading1", "Purpose", "SeeNineNine", "pki", "S26", "S1", "Hash", "tEst"}

ScorerInit ==
    /\ NoRun
    /\ ClientIdle
    /\ document \in UpToN(ScorerPieces, MaxPieces)
    /\ documentLevel \in AtypicalityLevel
    /\ validation = NoValidation
    /\ scored = <<>>

\* calculateDrift(text, level)
CalculateDrift ==
    /\ validation = NoValidation
    /\ validation' = calculateDrift(textOf(document), documentLevel)
    /\ UNCHANGED <<document, documentLevel, scored>>
    /\ UNCHANGED <<runVars, clientVars>>

ScorerSpec == ScorerInit /\ [][CalculateDrift]_vars

\* the five sub-scores
subScores == {"vocabulary", "template", "style", "crossRefs", "atypicality"}

C15_EmptyText ==
    /\ document = <<>>
    /\ validation # NoValidation
    /\ validation.total = 20

(***************************************************************************)
(* The vocabulary validator, called on its own                             *)
(***************************************************************************)
\* the most pieces that follow the first of a document
MaxExtras == 2

\* nothing, every term once, or every term but one
VocabularyBases == {<<>>, <<"AllTerms">>, <<"NoMFA">>}

\* terms again, in other casings, and inside a longer word
VocabularyExtras == {"PKI", "pki", "Mfa", "slab"}

VocabularyInit ==
    /\ NoRun
    /\ ClientIdle
    /\ \E base \in VocabularyBases, extras \in UpToN(VocabularyExtras, MaxExtras) :
          document = base \o extras
    /\ documentLevel = "low"
    /\ validation = NoValidation
    /\ scored = <<>>

\* validateVocabulary(text)
ValidateVocabulary ==
    /\ validation = NoValidation
    /\ validation' = validateVocabulary(textOf(document))
    /\ UNCHANGED <<document, documentLevel, scored>>
    /\ UNCHANGED <<runVars, clientVars>>

VocabularySpec == VocabularyInit /\ [][ValidateVocabulary]_vars

lowerOf(c) ==
    IF c \in UpperLetter
    THEN LowerCase[CHOOSE k \in 1..26 : UpperCase[k] = c]
    ELSE c

\* term stands at position p of t, letter case aside
occursAt(term, t, p) ==
    /\ p + Len(term) - 1 <= Len(t)
    /\ \A j \in 1..Len(term) : lowerOf(t[p + j - 1]) = lowerOf(term[j])

\* the number of places of t where term stands
occurrences(term, t) == Cardinality({ p \in 1..Len(t) : occursAt(term, t, p) })

\* the sum over the terms from the k-th on of |occurrences - 1|
RECURSIVE distanceFrom(_, _)
distanceFrom(t, k) ==
    IF k > 20 THEN 0
    ELSE LET n == occurrences(VOCABULARY[k], t)
         IN  (IF n > 1 THEN n - 1 ELSE 1 - n) + distanceFrom(t, k + 1)

\* the terms that do not occur exactly once, in the order of the vocabulary
offTerms(t) == SelectSeq(VOCABULARY, LAMBDA term : occurrences(term, t) # 1)

detailTerm(d) == d.term

\* C16: the vocabulary violations of a text are the sum over the 20 terms
\* of |count - 1|, count the number of places where the term stands, letter
\* case aside and inside longer words too; the details name exactly the
\* terms whose count is not 1, each with its count and the expected 1; every
\* term once gives 0, and one term twice with another absent gives 2
C16_VocabularyCount ==
    validation # NoValidation =>
       /\ validation.violations = distanceFrom(textOf(document), 1)
       /\ Map(validation.details, detailTerm) = offTerms(textOf(document))
       /\ \A k \in 1..Len(validation.details) :
             /\ validation.details[k].count =
                   occurrences(validation.details[k].term, textOf(document))
             /\ validation.details[k].expected = 1
       /\ document = <<"AllTerms">> => validation.violations = 0
       /\ document \in {<<"NoMFA", "PKI">>, <<"NoMFA", "pki">>} =>
             validation.violations = 2

\* every term once but MFA, and pki a second time in lower case: the two
\* violations are recorded for MFA (count 0) and PKI (count 2)
C16_Witness ==
    /\ validation # NoValidation
    /\ document = <<"NoMFA", "pki">>
    /\ validation.violations = 2
    /\ Len(validation.details) = 2
    /\ validation.details[1].term = <<"M", "F", "A">>
    /\ validation.details[1].count = 0
    /\ validation.details[2].term = <<"P", "K", "I">>
    /\ validation.details[2].count = 2

\* SLA is counted inside "slab"
C16_InsideLongerWord ==
    /\ validation # NoValidation
    /\ document = <<"AllTerms", "slab">>
    /\ validation.violations = 1

(***************************************************************************)
(* The template validator, called on its own                               *)
(***************************************************************************)
\* the most pieces that follow the first heading of a document
MaxMarkers == 5

\* the five subsection headings, and the heading of a second section
TemplatePieces ==
    {"Purpose", "Scope", "Directives", "Exceptions", "Enforcement", "Heading2"}

TemplateInit ==
    /\ NoRun
    /\ ClientIdle
    /\ \E rest \in UpToN(TemplatePieces, MaxMarkers) :
          document = <<"Heading1">> \o rest
    /\ documentLevel = "low"
    /\ validation = NoValidation
    /\ scored = <<>>

\* validateTemplate(text)
ValidateTemplate ==
    /\ validation = NoValidation
    /\ validation' = validateTemplate(textOf(document))
    /\ UNCHANGED <<document, documentLevel, scored>>
    /\ UNCHANGED <<runVars, clientVars>>

TemplateSpec == TemplateInit /\ [][ValidateTemplate]_vars

\* the pieces that are the five subsection headings, in the required order
requiredOrder == <<"Purpose", "Scope", "Directives", "Exceptions", "Enforcement">>

\* the titles of the section headings
titleOf ==
    [Heading1 |-> <<"A","c","c","e","s","s">>,
     Heading2 |-> <<"N","e","t","w","o","r","k">>]

\* a document as its Sections: each a heading and the pieces up to the next
RECURSIVE sectionsOf(_)
sectionsOf(names) ==
    IF names = <<>> THEN <<>>
    ELSE LET rest == Tail(names)
             next == Min({ k \in 1..(Len(rest) + 1) :
                             k = Len(rest) + 1 \/ rest[k] \in DOMAIN titleOf })
         IN  <<[heading |-> Head(names), markers |-> SubSeq(rest, 1, next - 1)]>>
             \o sectionsOf(SubSeq(rest, next, Len(rest)))

\* where a subsection heading stands first in a Section, 0 if nowhere
firstAt(markers, name) ==
    IF \E k \in 1..Len(markers) : markers[k] = name
    THEN Min({ k \in 1..Len(markers) : markers[k] = name })
    ELSE 0

\* the required subsections a Section lacks, by their number
missingIn(markers) == { r \in 1..5 : firstAt(markers, requiredOrder[r]) = 0 }

\* more than one subsection is found, and two of the found stand in the
\* opposite of the required order
outOfOrder(markers) ==
    /\ 5 - Cardinality(missingIn(markers)) > 1
    /\ \E a, b \in (1..5) \ missingIn(markers) :
          /\ a < b
          /\ firstAt(markers, requiredOrder[a]) > firstAt(markers, requiredOrder[b])

\* what a Section adds to the violations
contribution(markers) ==
    Cardinality(missingIn(markers)) + (IF outOfOrder(markers) THEN 1 ELSE 0)

RECURSIVE contributionsFrom(_, _)
contributionsFrom(sections, k) ==
    IF k > Len(sections) THEN 0
    ELSE contribution(sections[k].markers) + contributionsFrom(sections, k + 1)

\* the detail entry of a Section
detailOf(section) ==
    [section |-> titleOf[section.heading],
     missing |-> SelectSeq(REQUIRED_SUBSECTIONS,
                    LAMBDA sub : \E r \in missingIn(section.markers) :
                                    REQUIRED_SUBSECTIONS[r] = sub),
     wrongOrder |-> outOfOrder(section.markers)]

hasViolations(section) == contribution(section.markers) > 0

\* the required order with its r-th subsection taken out
without(r) == SelectSeq(requiredOrder, LAMBDA name : name # requiredOrder[r])

\* C17: every Section adds the number of required subsections it lacks,
\* and 1 more when more than one is found and the found ones do not stand
\* in the order Purpose, Scope, Directives, Exceptions, Enforcement; the
\* details hold exactly the Sections that add something; a Section with
\* all five in order adds 0, and with one of them taken out exactly 1
C17_TemplateContribution ==
    validation # NoValidation =>
       /\ validation.violations = contributionsFrom(sectionsOf(document), 1)
       /\ validation.details =
             Map(SelectSeq(sectionsOf(document), hasViolations), detailOf)
       /\ document = <<"Heading1">> \o requiredOrder =>
             validation = [violations |-> 0, details |-> <<>>]
       /\ \A r \in 1..5 :
             document = <<"Heading1">> \o without(r) =>
                /\ validation.violations = 1
                /\ validation.details[1].missing = <<REQUIRED_SUBSECTIONS[r]>>
                /\ ~validation.details[1].wrongOrder

\* all five subsections are found, Scope before Purpose: nothing is missing
\* and the Section adds 1 for the order
C17_Witness ==
    /\ validation # NoValidation
    /\ document = <<"Heading1", "Scope", "Purpose", "Directives", "Exceptions",
                    "Enforcement">>
    /\ validation.violations = 1
    /\ validation.details =
          <<[section |-> titleOf["Heading1"], missing |-> <<>>, wrongOrder |-> TRUE]>>

\* two Sections: the first lacks all five, the second has Scope before
\* Purpose and lacks three
C17_TwoSections ==
    /\ validation # NoValidation
    /\ document = <<"Heading1", "Heading2", "Scope", "Purpose">>
    /\ validation.violations = 5 + 4
    /\ Len(validation.details) = 2
    /\ ~validation.details[1].wrongOrder
    /\ validation.details[2].wrongOrder

(***************************************************************************)
(* The style validator, called on its own                                  *)
(***************************************************************************)
\* the most sentences of a document
MaxSentences == 4

\* the number of words of the sentence pieces
wordsIn == [S1 |-> 1, S12 |-> 12, S13 |-> 13, S25 |-> 25, S26 |-> 26]

StyleInit ==
    /\ NoRun
    /\ ClientIdle
    /\ document \in UpToN(DOMAIN wordsIn, MaxSentences)
    /\ documentLevel = "low"
    /\ validation = NoValidation
    /\ scored = <<>>

\* validateStyle(text)
ValidateStyle ==
    /\ validation = NoValidation
    /\ validation' = validateStyle(textOf(document))
    /\ UNCHANGED <<document, documentLevel, scored>>
    /\ UNCHANGED <<runVars, clientVars>>

StyleSpec == StyleInit /\ [][ValidateStyle]_vars

\* the sentences of more than 25 words, and those of at most 12
longOnes(names) == { k \in 1..Len(names) : wordsIn[names[k]] > 25 }

shortOnes(names) == { k \in 1..Len(names) : wordsIn[names[k]] <= 12 }

\* ceil((0.7 - s/n) * 10) for s/n < 0.7: the least integer c with
\* c >= (7n - 10s) / n
penaltyOf(s, n) ==
    CHOOSE c \in 1..7 : c * n >= 7 * n - 10 * s /\ (c - 1) * n < 7 * n - 10 * s

\* C18: the style violations of a list of sentences are the number of
\* sentences of more than 25 words, plus ceil((0.7 - shortRatio) * 10)
\* when shortRatio, the fraction of sentences of at most 12 words, is below
\* 0.7; a sentence of 26 words is long and one of 25 is not; without
\* sentences shortRatio is 1 and there are no violations
C18_StyleViolations ==
    validation # NoValidation =>
       LET n == Len(document)
           s == Cardinality(shortOnes(document))
       IN  /\ validation.totalSentences = n
           /\ validation.longSentences = Cardinality(longOnes(document))
           /\ n > 0 => validation.shortRatio.num * n = s * validation.shortRatio.den
           /\ n = 0 => /\ validation.shortRatio.num = validation.shortRatio.den
                       /\ validation.violations = 0
           /\ validation.violations =
                 Cardinality(longOnes(document))
                 + (IF n > 0 /\ 10 * s < 7 * n THEN penaltyOf(s, n) ELSE 0)
           /\ document = <<"S26">> => validation.longSentences = 1
           /\ document = <<"S25">> => validation.longSentences = 0

\* one sentence of 26 words, one of 13 and two of 12: one long sentence,
\* and shortRatio 2/4 gives the penalty ceil(0.2 * 10) = 2
C18_Witness ==
    /\ validation # NoValidation
    /\ document = <<"S26", "S12", "S13", "S12">>
    /\ validation.longSentences = 1
    /\ validation.violations = 3
    /\ validation.details[1].wordCount = 26

\* two short sentences of three: the penalty is ceil(0.33) = 1, not 0
C18_RoundedUp ==
    /\ validation # NoValidation
    /\ document = <<"S12", "S25", "S1">>
    /\ validation.violations = 1

(***************************************************************************)
(* The cross-reference validator, called on its own                        *)
(***************************************************************************)
\* the most references of a document
MaxReferences == 3

\* the numbers of the section headings
numberOf ==
    [Heading1 |-> <<"1">>, Heading2 |-> <<"2">>, Heading3 |-> <<"3">>,
     Heading31 |-> <<"3", ".", "1">>]

\* the target numbers of the references
targetOf ==
    [SeeTwo |-> <<"2">>, SeeNineNine |-> <<"9", ".", "9">>,
     SeeThreeOne |-> <<"3", ".", "1">>, seeNine |-> <<"9">>, SEENINE |-> <<"9">>]

\* no heading, the sections 1 to 3, or sections 1 and 3.1
CrossRefBases ==
    {<<>>, <<"Heading1", "Heading2", "Heading3">>, <<"Heading1", "Heading31">>}

CrossRefInit ==
    /\ NoRun
    /\ ClientIdle
    /\ \E base \in CrossRefBases, refs \in UpToN(DOMAIN targetOf, MaxReferences) :
          document = base \o refs
    /\ documentLevel = "low"
    /\ validation = NoValidation
    /\ scored = <<>>

\* validateCrossRefs(text)
ValidateCrossRefs ==
    /\ validation = NoValidation
    /\ validation' = validateCrossRefs(textOf(document))
    /\ UNCHANGED <<document, documentLevel, scored>>
    /\ UNCHANGED <<runVars, clientVars>>

CrossRefSpec == CrossRefInit /\ [][ValidateCrossRefs]_vars

\* the Section numbers present in a document
numbersIn(names) ==
    { numberOf[names[k]] : k \in { j \in 1..Len(names) : names[j] \in DOMAIN numberOf } }

\* the piece is a reference to a Section that is not in the document
dangles(names, name) ==
    name \in DOMAIN targetOf /\ targetOf[name] \notin numbersIn(names)

\* the references to Sections that are not there, one for each occurrence
danglingIn(names) == SelectSeq(names, LAMBDA name : dangles(names, name))

\* the words "See Section " and the target, as they stand in the piece
matchedText(name) == SubSeq(Piece[name], 1, 12 + Len(targetOf[name]))

detailOfReference(name) ==
    [reference |-> matchedText(name), targetSection |-> targetOf[name],
     exists |-> FALSE]

\* the document has a reference written all in capitals
hasCapitals(names) == \E k \in 1..Len(names) : names[k] = "SEENINE"

C20_AnyCasing ==
    validation # NoValidation =>
       validation.violations = Len(danglingIn(document))

\* "SEE SECTION 9" in a document without Section 9 is scored: it is not
\* collected, and there is no violation
C20_Witness ==
    /\ validation # NoValidation
    /\ document = <<"SEENINE">>
    /\ validation = [violations |-> 0, details |-> <<>>]

\* "see Section 9" and "see section 3.1" are collected
C20_LowerCaseCollected ==
    /\ validation # NoValidation
    /\ document = <<"seeNine", "SeeThreeOne">>
    /\ validation.violations = 2

(***************************************************************************)
(* The headings the template and the cross-reference validators see        *)
(***************************************************************************)
\* the most headings of a document
MaxHeadings == 2

\* headings with an integer and with a dotted number
HeadingPieces == {"Heading1", "Heading2", "Heading31"}

\* references to their numbers
ReferencePieces == {"SeeTwo", "SeeThreeOne", "SeeNineNine"}

\* headings without subsections, then references
SectionsInit ==
    /\ NoRun
    /\ ClientIdle
    /\ \E headings \in UpToN(HeadingPieces, MaxHeadings),
          refs \in UpToN(ReferencePieces, MaxReferences) :
          document = headings \o refs
    /\ documentLevel = "low"
    /\ validation = NoValidation
    /\ scored = <<>>

SectionsSpec == SectionsInit /\ [][CalculateDrift]_vars

\* the titles of all the heading pieces
headingTitle ==
    [Heading1 |-> <<"A","c","c","e","s","s">>,
     Heading2 |-> <<"N","e","t","w","o","r","k">>,
     Heading31 |-> <<"H","o","s","t","s">>]

\* the template validator parsed the heading as a Section: a Section
\* without subsections always has a detail entry
parsedAsSection(name) ==
    \E k \in 1..Len(validation.template.details) :
       validation.template.details[k].section = headingTitle[name]

\* the cross-reference validator collected the number: a reference to it
\* is not reported
numberCollected(number) ==
    \A k \in 1..Len(validation.crossRefs.details) :
       validation.crossRefs.details[k].targetSection # number

\* the document refers to the number
refersTo(names, number) ==
    \E k \in 1..Len(names) :
       names[k] \in ReferencePieces /\ targetOf[names[k]] = number

\* C21: the two validators recognise the same headings as Sections: a
\* heading of the document, with an integer or a dotted number, is a
\* Section for the template validator exactly when a reference to its
\* number is resolved by the cross-reference validator
C21_SameSections ==
    validation # NoValidation =>
       \A k \in 1..Len(document) :
          document[k] \in HeadingPieces
          /\ refersTo(document, numberOf[document[k]]) =>
             (parsedAsSection(document[k])
                 <=> numberCollected(numberOf[document[k]]))

\* "## 3.1. Hosts" and "see section 3.1": the reference is resolved, and
\* the template validator sees no Section at all
C21_Witness ==
    /\ validation # NoValidation
    /\ document = <<"Heading31", "SeeThreeOne">>
    /\ validation.crossRefs.violations = 0
    /\ validation.template = [violations |-> 0, details |-> <<>>]

\* with an integer number the two agree: "## 2. Network" is a Section
\* without subsections, and "See Section 2" is resolved
C21_IntegerHeading ==
    /\ validation # NoValidation
    /\ document = <<"Heading2", "SeeTwo">>
    /\ validation.crossRefs.violations = 0
    /\ validation.template.violations = 5

\* for the headings with an integer number the equivalence holds
C21_IntegerHeadingsAgree ==
    validation # NoValidation =>
       \A k \in 1..Len(document) :
          document[k] \in HeadingPieces \ {"Heading31"}
          /\ refersTo(document, numberOf[document[k]]) =>
             (parsedAsSection(document[k])
                 <=> numberCollected(numberOf[document[k]]))

(***************************************************************************)
(* The atypicality validator, called on its own                            *)
(***************************************************************************)
\* the most pieces that follow the first of a document of words
MaxWords == 3

\* nothing, or five words in lower case
AtypicalityBases == {<<>>, <<"FiveWords">>}

\* words in several casings, a short word, a word with an apostrophe and
\* one that starts with a digit
WordPieces == {"test", "teSt", "Test", "ab", "dont", "n9ab"}

AtypicalityInit ==
    /\ NoRun
    /\ ClientIdle
    /\ \E base \in AtypicalityBases, extras \in UpToN(WordPieces, MaxWords) :
          document = base \o extras
    /\ documentLevel \in AtypicalityLevel
    /\ validation = NoValidation
    /\ scored = <<>>

\* validateAtypicality(text, level)
ValidateAtypicality ==
    /\ validation = NoValidation
    /\ validation' = validateAtypicality(textOf(document), documentLevel)
    /\ UNCHANGED <<document, documentLevel, scored>>
    /\ UNCHANGED <<runVars, clientVars>>

AtypicalitySpec == AtypicalityInit /\ [][ValidateAtypicality]_vars

pieceWords(name) == PieceWords[name]

\* the words of a document, in order
documentWords(names) == Concat(Map(names, pieceWords))

\* the rule of the level is broken by the word
breaksRule(word, lvl) ==
    \/ lvl = "mid" /\ word[1] \in LowerLetter
    \/ lvl = "high" /\ Len(word) >= 3 /\ word[3] \in LowerLetter

\* the words of a document that break the rule of the level, in order
violatingWords(names, lvl) ==
    SelectSeq(documentWords(names), LAMBDA word : breaksRule(word, lvl))

\* C22: at level low there are no violations; at level mid a word is a
\* violation exactly when its first character is a lower-case letter; at
\* level high exactly when it has 3 characters or more and the third is a
\* lower-case letter; the violations are the number of violating words
C22_WordRules ==
    validation # NoValidation =>
       /\ validation.violations = Len(violatingWords(document, documentLevel))
       /\ documentLevel = "low" => validation.violations = 0
       /\ documentLevel = "high" /\ document = <<"test">> => validation.violations = 1
       /\ documentLevel = "high" /\ document \in {<<"teSt">>, <<"ab">>} =>
             validation.violations = 0
       /\ documentLevel = "mid" /\ document = <<"n9ab">> => validation.violations = 0

\* "don't 9ab, teSt" at level high: don is a violation (3 characters, n in
\* lower case), t is too short, 9ab is one, teSt is not
C22_Witness ==
    /\ validation # NoValidation
    /\ documentLevel = "high"
    /\ document = <<"dont", "n9ab", "teSt">>
    /\ validation.violations = 2

\* the same words at level mid: don, t and teSt start in lower case
C22_MidWitness ==
    /\ validation # NoValidation
    /\ documentLevel = "mid"
    /\ document = <<"dont", "n9ab", "teSt">>
    /\ validation.violations = 3

detailWord(d) == d.word

\* the first n elements of s, all of s when it has fewer
firstOf(s, n) == SubSeq(s, 1, IF Len(s) < n THEN Len(s) ELSE n)

\* C23: the details of the atypicality validator are the first violating
\* words of the document in order, min(violations, 5) of them, and the
\* violation counter counts every violating word, beyond 5 too
C23_DetailsCappedAtFive ==
    validation # NoValidation =>
       /\ Len(validation.details) =
             (IF validation.violations < 5 THEN validation.violations ELSE 5)
       /\ Map(validation.details, detailWord) =
             firstOf(violatingWords(document, documentLevel), 5)
       /\ validation.violations = Len(violatingWords(document, documentLevel))

\* nine words start in lower case at level mid: 9 violations, and the
\* details hold the first five
C23_Witness ==
    /\ validation # NoValidation
    /\ documentLevel = "mid"
    /\ document = <<"FiveWords", "test", "dont", "ab">>
    /\ validation.violations = 9
    /\ Map(validation.details, detailWord) = PieceWords["FiveWords"]

\* fewer than five violations: every violating word is in the details
C23_BelowTheCap ==
    /\ validation # NoValidation
    /\ documentLevel = "high"
    /\ document = <<"Test", "ab", "test">>
    /\ validation.violations = 2
    /\ Len(validation.details) = 2

(***************************************************************************)
(* The scorer on documents that repeat one piece                           *)
(***************************************************************************)
\* the most repetitions of the piece
MaxRepeats == 7

\* a dangling reference, a long sentence, a heading without subsections,
\* two words, and a term of the vocabulary
RepeatedPieces == {"SeeNineNine", "S26", "Heading1", "tEst", "pki"}

ReportInit ==
    /\ NoRun
    /\ ClientIdle
    /\ \E name \in RepeatedPieces, n \in 0..MaxRepeats :
          document = [k \in 1..n |-> name]
    /\ documentLevel \in AtypicalityLevel
    /\ validation = NoValidation
    /\ scored = <<>>

ReportSpec == ReportInit /\ [][CalculateDrift]_vars

\* the most entries a detail list may have: one for each of the 20 terms
\* for the vocabulary, and the 5 of the atypicality validator for the others
detailCap(s) == IF s = "vocabulary" THEN 20 ELSE 5

\* C24: the detail list of each of the five sub-scores is never longer
\* than a fixed cap, however long the document
C24_EveryDetailListCapped ==
    validation # NoValidation =>
       \A s \in subScores : Len(validation[s].details) <= detailCap(s)

\* a document of 7 dangling references is scored: the cross-reference
\* details have 7 entries, one for each
C24_Witness ==
    /\ validation # NoValidation
    /\ document = [k \in 1..7 |-> "SeeNineNine"]
    /\ Len(validation.crossRefs.details) = 7

\* so do the style details for 7 long sentences and the template details
\* for 7 Sections without subsections
C24_StyleAndTemplate ==
    /\ validation # NoValidation
    /\ \/ /\ document = [k \in 1..7 |-> "S26"]
          /\ Len(validation.style.details) = 7
       \/ /\ document = [k \in 1..7 |-> "Heading1"]
          /\ Len(validation.template.details) = 7

\* the details of the three lists without a cap grow with the document:
\* one entry for each repetition of the piece
C24_DetailsGrow ==
    validation # NoValidation /\ document # <<>> =>
       /\ document[1] = "SeeNineNine" =>
             Len(validation.crossRefs.details) = Len(document)
       /\ document[1] = "S26" => Len(validation.style.details) = Len(document)
       /\ document[1] = "Heading1" =>
             Len(validation.template.details) = Len(document)
       /\ Len(validation.atypicality.details) <= 5
       /\ Len(validation.vocabulary.details) <= 20


(***************************************************************************)
(* The violation report of a retry                                         *)
(***************************************************************************)
\* the sub-score a line of a violation report is about
categoryOf(label) ==
    CASE label \in {"Vocabulary", "VOCABULARY ERRORS"} -> "vocabulary"
      [] label \in {"Template", "STRUCTURE ERRORS"} -> "template"
      [] label \in {"Style", "STYLE ERRORS"} -> "style"
      [] label \in {"Cross-refs", "REFERENCE ERRORS"} -> "crossRefs"
      [] label = "FORMATTING ERRORS" -> "atypicality"

\* the sub-scores of s that count a violation
nonZero(s) == {c \in subScores : s[c].violations > 0}

\* the retries among the calls of the current step of repair and regen-full
retryCalls ==
    IF strategy \in {"repair", "regen-full"}
    THEN (documentCallsFrom + 1)..Len(stepCalls)
    ELSE {}

\* the report of the k-th call of the step
reportOf(k) == stepCalls[k].userPrompt.violations

\* the sub-scores the report r has a line for, and the number of its lines
linesOf(r) == {categoryOf(r[j].label) : j \in 1..Len(r)}

\* the Drift Score of the attempt before the k-th call, at the run's level
scoreBefore(k) == scoreOf(stepResponses[k - 1], atypicalityLevel)

\* C25: the report of every retry of repair and regen-full has one line for
\* each sub-score that counts a violation in the Drift Score of the attempt
\* just before it, and no other line
C25_ReportOfPrecedingAttempt ==
    \A k \in retryCalls :
        /\ linesOf(reportOf(k)) = nonZero(scoreBefore(k))
        /\ Len(reportOf(k)) = Cardinality(nonZero(scoreBefore(k)))

\* a repair run at level mid retries after a text with four atypical words:
\* the report has a Vocabulary and a Template line, none for atypicality
C25_Witness ==
    /\ strategy = "repair" /\ atypicalityLevel = "mid"
    /\ pc = "generate" /\ cont = "repair_retry"
    /\ stepResponses = <<"DocB">>
    /\ scoreBefore(2).atypicality.violations = 4
    /\ linesOf(reportOf(2)) = {"vocabulary", "template"}

\* what repairEvolve and regenerationEvolve hand to formatViolations is
\* the score they took of the attempt just before the call
ownScoreBefore(k) ==
    IF strategy = "repair"
    THEN repair_calculateDrift(stepResponses[k - 1])
    ELSE scoreBefore(k)

ownReport(s) ==
    IF strategy = "repair"
    THEN repair_formatViolations(s)
    ELSE regeneration_formatViolations(s)

\* the report is the one of the attempt just before the call, as the
\* function scored it, and has one line for each non-zero sub-score of that
\* score: all of C25 for regen-full, and for repair at level low
C25_ReportOfOwnScore ==
    \A k \in retryCalls :
        /\ reportOf(k) = ownReport(ownScoreBefore(k))
        /\ linesOf(reportOf(k)) = nonZero(ownScoreBefore(k))
        /\ Len(reportOf(k)) = Cardinality(nonZero(ownScoreBefore(k)))

\* regen-full reports the attempt before the call where it is neither the
\* first attempt nor the best so far
C25_NotTheBest ==
    /\ strategy = "regen-full" /\ atypicalityLevel = "high"
    /\ pc = "generate" /\ cont = "regen_retry"
    /\ Len(stepResponses) = 3
    /\ stepResponses[2] = "DocB" /\ stepResponses[3] = "DocOk"
    /\ bestArtifact = "DocB"
    /\ linesOf(reportOf(3)) = {"vocabulary", "template"}
    /\ linesOf(reportOf(4)) = {"atypicality"}

(***************************************************************************)
(* The scorer called again and again                                       *)
(***************************************************************************)
MaxScored == 3

MaxScoredPieces == 2

\* a dangling reference and a word that is atypical at mid and at high
ScoredPieces == {"SeeNineNine", "tEst"}

ScoredInit ==
    /\ NoRun
    /\ ClientIdle
    /\ ValidatorIdle

\* variant: validateCrossRefs' counter is declared outside the function and
\* goes on from the call before
CalculateDriftKeeping(d, l) ==
    /\ Len(scored) < MaxScored
    /\ document' = d
    /\ documentLevel' = l
    /\ validation' =
          LET s == calculateDrift(textOf(d), l)
              kept == IF validation = NoValidation
                      THEN 0 ELSE validation.crossRefs.violations
          IN  [s EXCEPT !.crossRefs.violations = @ + kept, !.total = @ + kept]
    /\ scored' = Append(scored, [document |-> d, level |-> l, score |-> validation'])
    /\ UNCHANGED <<runVars, clientVars>>

\* calculateDrift(text, level), called with any text and level after the
\* calls made so far
CalculateDriftOf(d, l) ==
    /\ Len(scored) < MaxScored
    /\ document' = d
    /\ documentLevel' = l
    /\ validation' = calculateDrift(textOf(d), l)
    /\ scored' = Append(scored, [document |-> d, level |-> l, score |-> validation'])
    /\ UNCHANGED <<runVars, clientVars>>

ScoredNext ==
    \E d \in UpToN(ScoredPieces, MaxScoredPieces), l \in AtypicalityLevel :
        CalculateDriftOf(d, l)

ScoredSpec == ScoredInit /\ [][ScoredNext]_vars

callIssued ==
    \/ pending' # NoCall /\ pending' # pending
    \/ stepCalls' # stepCalls

\* this step scores a text
scoringDone ==
    \/ score' # score /\ score' # NoScore
    \/ iterationMetrics' # iterationMetrics /\ iterationMetrics' # NoMetrics

\* C27: a call is outstanding exactly while its caller waits, so there is
\* never more than one; a call is started, and a text is scored, only when
\* every call made before has returned; and a call of iteration i is started
\* only when the steps before i have returned and their artifacts are written
C27_OneCallAtATime ==
    /\ [](pending # NoCall <=> pc = "generate")
    /\ [](Len(stepCalls) = Len(stepResponses)
                           + (IF pc = "generate" \/ error = "generation failed"
                              THEN 1 ELSE 0))
    /\ [][callIssued =>
            /\ pending = NoCall /\ pc # "generate"
            /\ pending' # NoCall /\ pc' = "generate"
            /\ Len(stepCalls') = Len(stepResponses') + 1
            /\ savedIterations = UpTo(i - 1)
            /\ Len(metrics.iterations) = i - 1]_vars
    /\ [][scoringDone => pending = NoCall /\ pending' = NoCall]_vars

\* the fourth call of the second step of regen-full is outstanding: three
\* calls of the step have returned, and the first step's artifact is written
C27_Witness ==
    /\ strategy = "regen-full" /\ i = 2
    /\ pc = "generate" /\ pending # NoCall
    /\ Len(stepCalls) = 4 /\ Len(stepResponses) = 3
    /\ pending = stepCalls[4]
    /\ savedIterations = <<1>>

(***************************************************************************)
(* What a strategy function returns                                        *)
(***************************************************************************)
\* a strategy function with a result has returned to its case of the engine
returned ==
    /\ pc \in {"repair_record", "regeneration_record", "regen_record"}
    /\ result # NoResult

\* the level the function that returned took its scores at
levelScoredWith == IF strategy = "repair" THEN "low" ELSE atypicalityLevel

\* C28: whatever repairEvolve, regenerationEvolveSimple and regenerationEvolve
\* return, finalScore is the Drift Score of the returned artifact at the
\* level the function scores at, and converged says that its total is 0
C28_FinalScoreOfReturned ==
    returned =>
        /\ result.finalScore = scoreOf(result.artifact, levelScoredWith)
        /\ result.converged <=> (result.finalScore.total = 0)

\* regen-full returns an earlier attempt of total 2 after a last one of 7
C28_Witness ==
    /\ strategy = "regen-full" /\ returned
    /\ result.artifact = "DocB" /\ Last(attempts) = "DocOk"
    /\ result.finalScore.total = 2
    /\ ~result.converged
    /\ Last(result.driftHistory) = 7

\* repair returns, converged, an attempt it scored 0
C28_RepairConverged ==
    /\ strategy = "repair" /\ returned
    /\ result.retries = 1
    /\ result.finalScore.total = 0
    /\ result.converged

\* regen-reconcile returns its one attempt, not converged
C28_SingleShot ==
    /\ strategy = "regen-reconcile" /\ returned
    /\ result.finalScore.total > 0
    /\ ~result.converged

\* C29: a result has one driftHistory entry more than it has retries, and
\* from 0 to 3 retries; the entries are the totals of the attempts in order,
\* the initial one first, at the level the function scores at; regeneration
\* and regen-reconcile return no retry and one entry
C29_HistoryAndRetries ==
    returned =>
        /\ Len(result.driftHistory) = result.retries + 1
        /\ result.retries \in 0..3
        /\ Len(attempts) = Len(result.driftHistory)
        /\ \A k \in 1..Len(result.driftHistory) :
              result.driftHistory[k] = scoreOf(attempts[k], levelScoredWith).total
        /\ strategy \in {"regeneration", "regen-reconcile"} =>
              result.retries = 0 /\ Len(result.driftHistory) = 1

\* repair returns after three retries, each better than the attempt before
C29_Witness ==
    /\ strategy = "repair" /\ returned
    /\ result.retries = 3
    /\ result.driftHistory = <<4, 3, 2, 1>>

\* regen-full returns after two retries, the second with total 0
C29_RegenFull ==
    /\ strategy = "regen-full" /\ returned
    /\ result.retries = 2
    /\ Len(result.driftHistory) = 3
    /\ Last(result.driftHistory) = 0

\* regeneration returns its one attempt
C29_SingleShot ==
    /\ strategy = "regeneration" /\ returned
    /\ result.retries = 0
    /\ result.driftHistory = <<2>>

\* C30: repair returns the last text it generated, with the score it took of
\* it: finalScore.total is the last driftHistory entry, and every entry but
\* the last is below the one before it
C30_RepairReturnsLast ==
    (strategy = "repair" /\ returned) =>
        /\ result.artifact = Last(stepResponses)
        /\ result.finalScore.total = Last(result.driftHistory)
        /\ \A k \in 2..(Len(result.driftHistory) - 1) :
              result.driftHistory[k] < result.driftHistory[k - 1]

\* repair returns a last attempt of total 4 after attempts of 3 and 1: the
\* total returned is above those of both earlier attempts
C30_Witness ==
    /\ strategy = "repair" /\ returned
    /\ result.driftHistory = <<3, 1, 4>>
    /\ result.finalScore.total = 4
    /\ result.artifact = Last(stepResponses)
    /\ result.artifact # stepResponses[2]

(***************************************************************************)
(* The best attempt of regen-full                                          *)
(***************************************************************************)
\* the place of the first entry of h that is its least
firstMin(h) == CHOOSE k \in 1..Len(h) :
                  /\ h[k] = MinOf(h)
                  /\ \A j \in 1..(k - 1) : h[j] > h[k]

\* the text of the k-th scored attempt of a regen-full step
scoredAttempt(k) == stepResponses[k + 1]

\* C31: in a regen-full step the best total is the least of the totals so
\* far and the best text is the first attempt that had it; the best total
\* never goes up when an attempt is scored; and the text returned is the
\* first attempt with the least total of the step
C31_EarliestMinimum ==
    /\ [](inRegenFull =>
            /\ bestScore = MinOf(driftHistory)
            /\ bestArtifact = scoredAttempt(firstMin(driftHistory)))
    /\ [][(strategy = "regen-full" /\ pc = "regen_retry") =>
              /\ bestScore' <= bestScore
              /\ bestScore' < bestScore \/ bestArtifact' = bestArtifact]_vars
    /\ []((strategy = "regen-full" /\ returned) =>
            result.artifact = scoredAttempt(firstMin(result.driftHistory)))

\* attempts of totals 20, 2, 2, 2: the second is returned, not the third of
\* another text and the same total, nor the last
C31_Witness ==
    /\ strategy = "regen-full" /\ returned /\ atypicalityLevel = "low"
    /\ attempts = <<"Empty", "DocF", "DocB", "DocF">>
    /\ result.driftHistory = <<20, 2, 2, 2>>
    /\ result.artifact = "DocF"
    /\ bestScore = 2

\* the first of two texts of the same total is returned
C31_FirstOfTwo ==
    /\ strategy = "regen-full" /\ returned /\ atypicalityLevel = "high"
    /\ attempts = <<"DocB", "DocF", "DocOk", "DocF">>
    /\ result.artifact = "DocB"

(***************************************************************************)
(* What a failed run leaves behind                                         *)
(***************************************************************************)
\* C32: when a generation call fails in iteration k, the artifacts of
\* iterations 1..k-1 are written, one file each, and none of iteration k or
\* later; nothing is written afterwards; and the metrics summary is written
\* only by a run that made all its steps without a failure
C32_FailedRunKeepsSnapshots ==
    /\ [](error = "generation failed" =>
            /\ Len(artifactFiles) = i - 1
            /\ \A k \in 1..(i - 1) : artifactFiles[k].path.file = k
            /\ \A k \in 1..Len(artifactFiles) : artifactFiles[k].path.file < i
            /\ ~metricsFile.written)
    /\ [][error = "generation failed" => UNCHANGED <<artifactFiles, metricsFile>>]_vars
    /\ [](metricsFile.written =>
            /\ error = ""
            /\ pc = "done"
            /\ Len(metrics.iterations) = stepsOfRun
            /\ Len(artifactFiles) = stepsOfRun)

\* a call of the second step of a regen-full run failed: the artifact of the
\* first step is written, nothing else
C32_Witness ==
    /\ error = "generation failed" /\ pc = "aborted"
    /\ strategy = "regen-full" /\ i = 2 /\ iterationCount = 2
    /\ Len(stepCalls) = 3
    /\ Len(artifactFiles) = 1
    /\ artifactFiles[1].path.file = 1
    /\ ~metricsFile.written

\* a call of the first step failed: nothing is written
C32_FirstStep ==
    /\ error = "generation failed" /\ pc = "aborted"
    /\ i = 1
    /\ artifactFiles = <<>>
    /\ ~metricsFile.written

(***************************************************************************)
(* generate when every attempt fails                                       *)
(***************************************************************************)
\* this step is an attempt that failed
attemptFailed ==
    /\ Len(created') = Len(created) + 1
    /\ ~created'[Len(created')].ok

\* C33: whatever the error of a failed attempt, the fifth like the first,
\* generate sleeps for the delay of the attempt before it goes on; it throws
\* after five failed attempts and five delays, of 1000, 2000, 4000, 8000 and
\* 16000 ms; the usage counter goes up, by one, only with an attempt that
\* succeeded, so that a call that throws leaves it where it was
C33_WaitsAfterEveryFailure ==
    /\ [][attemptFailed =>
             /\ clientPc' = "sleep"
             /\ slept' = Append(slept, 1000 * 2^(Len(created)))
             /\ totalCalls' = totalCalls]_vars
    /\ [](clientPc \in {"throw", "thrown"} =>
             /\ slept = <<1000, 2000, 4000, 8000, 16000>>
             /\ Cardinality(failedAttempts) = 5
             /\ totalCalls \in PriorCalls)
    /\ [][totalCalls' # totalCalls =>
             /\ totalCalls' = totalCalls + 1
             /\ Len(created') = Len(created) + 1
             /\ created'[Len(created')].ok
             /\ outcome'.kind = "return"]_vars

\* five attempts failed with errors of three kinds, generate slept five
\* times, the last time for 16000 ms, and threw; the counter stayed at 2
C33_Witness ==
    /\ clientPc = "thrown"
    /\ {created[k].error : k \in 1..Len(created)} = ServiceErrors
    /\ created[5].error = "timeout"
    /\ Len(slept) = 5 /\ slept[5] = 16000
    /\ totalCalls = 2

\* the fifth attempt succeeded after four delays: the counter went from 2 to 3
C33_CountedOnce ==
    /\ clientPc = "returned"
    /\ Len(created) = 5
    /\ slept = <<1000, 2000, 4000, 8000>>
    /\ totalCalls = 3

(***************************************************************************)
(* A response without content                                              *)
(***************************************************************************)
\* what calculateDrift returns for a text without a character
emptyScore(s) ==
    /\ s.total = 20
    /\ s.vocabulary.violations = 20
    /\ s.template.violations = 0
    /\ s.style.violations = 0
    /\ s.crossRefs.violations = 0
    /\ s.atypicality.violations = 0

\* the steps of the run recorded with the empty text as their artifact
emptySteps == {k \in 1..Len(artifactFiles) : artifactFiles[k].content = "Empty"}

\* C34: the empty text that generate returns for a response without content
\* scores 20 at every level, all of it vocabulary; a call answered with it
\* returns as any other, without an error; repair and regen-full, with
\* retries left, make another call when the attempt they hold is the empty
\* text; regeneration and regen-reconcile return it with total 20; and a
\* step that ends with it is recorded with driftScore 20 and its file written
C34_EmptyTextIsAnArtifact ==
    /\ [](/\ Text["Empty"] = <<>>
          /\ \A l \in AtypicalityLevel : emptyScore(scoreOf("Empty", l)))
    /\ [][(/\ pc = "generate"
           /\ Len(stepResponses') = Len(stepResponses) + 1
           /\ Last(stepResponses') = "Empty") =>
             /\ error' = ""
             /\ pc' = cont
             /\ response' = "Empty"]_vars
    /\ [][(/\ pc \in {"repair_loop", "regen_loop"}
           /\ strategy \in {"repair", "regen-full"}
           /\ artifact = "Empty"
           /\ retries < 3) =>
             /\ pc' = "generate"
             /\ retries' = retries + 1]_vars
    /\ []((/\ strategy \in {"regeneration", "regen-reconcile"}
           /\ returned
           /\ Last(stepResponses) = "Empty") =>
             /\ result.artifact = "Empty"
             /\ emptyScore(result.finalScore)
             /\ ~result.converged
             /\ result.retries = 0)
    /\ [](\A k \in emptySteps :
             /\ metrics.iterations[k].driftScore = 20
             /\ metrics.iterations[k].vocabularyViolations = 20)

\* a regeneration run at level high got the empty text, recorded it with
\* driftScore 20 and wrote it, and its metrics
C34_Witness ==
    /\ strategy = "regeneration" /\ atypicalityLevel = "high"
    /\ pc = "done" /\ error = ""
    /\ emptySteps = {1}
    /\ metrics.iterations[1].driftScore = 20
    /\ metricsFile.written

\* repair got the empty text first and made another call
C34_RepairRetries ==
    /\ strategy = "repair"
    /\ pc = "generate" /\ cont = "repair_retry"
    /\ stepResponses = <<"Empty">>
    /\ driftHistory = <<20>>
    /\ retries = 1

\* regen-full got the empty text three times and made its last call
C34_RegenFullRetries ==
    /\ strategy = "regen-full"
    /\ pc = "generate" /\ cont = "regen_retry"
    /\ attempts = <<"Empty", "Empty", "Empty">>
    /\ driftHistory = <<20, 20, 20>>
    /\ retries = 3

\* one call of generate: a response without content is returned as ''
\* and counted as a call
C34_EmptyContentReturned ==
    (clientPc = "returned" /\ created[Len(created)].content = "null") =>
        /\ outcome = [kind |-> "return", value |-> ""]
        /\ totalCalls \notin PriorCalls

\* the second attempt was answered without content
C34_EmptyContentAtSecond ==
    /\ clientPc = "returned"
    /\ Len(created) = 2
    /\ created[2].content = "null"
    /\ outcome.value = ""

(***************************************************************************)
(* The command-line driver                                                 *)
(***************************************************************************)
\* the largest --runs value
MaxRuns == 2

\* the most generation calls a run is seen to make
MaxRunCalls == 2

\* --strategy: one of the five, or "all"
DriverStrategies == Range(ALL_STRATEGIES) \cup {"all"}

\* options.strategy === 'all' ? ALL_STRATEGIES : [options.strategy]
strategiesOf(option) == IF option = "all" THEN ALL_STRATEGIES ELSE <<option>>

NoMoreRuns == [k |-> 0, r |-> 0]

\* variant: the loop over the runs is the outer one
RECURSIVE runsFromRunMajor(_, _, _, _)
runsFromRunMajor(k, r, n, count) ==
    IF r > count \/ n = 0 THEN NoMoreRuns
    ELSE IF k <= n THEN [k |-> k, r |-> r]
    ELSE runsFromRunMajor(1, r + 1, n, count)

\* for (const strategy of strategies) for (let run = 1; run <= runs; run++):
\* the place of the next call of runExperiment from strategy k and run r on,
\* of n strategies and count runs
RECURSIVE runsFrom(_, _, _, _)
runsFrom(k, r, n, count) ==
    IF k > n THEN NoMoreRuns
    ELSE IF r <= count THEN [k |-> k, r |-> r]
    ELSE runsFrom(k + 1, 1, n, count)

\* the two loops go on to the place at, where runExperiment is called, or
\* end, and the usage statistics are printed
GoOnAt(at) ==
    IF at = NoMoreRuns
    THEN /\ cliPc' = "completed"
         /\ UNCHANGED <<strategyAt, runNumber>>
    ELSE /\ cliPc' = "running"
         /\ strategyAt' = at.k
         /\ runNumber' = at.r

\* the runs started, with the run runExperiment is called for next
launchedWith(runs, at) ==
    IF at = NoMoreRuns THEN runs
    ELSE Append(runs, [strategy |-> strategiesOf(optionStrategy)[at.k],
                       runId |-> at.r, calls |-> 0])

DriverInit ==
    /\ RunIdle
    /\ ValidatorIdle
    /\ clientPc = "idle"
    /\ attempt = 0
    /\ lastError = "null"
    /\ created = <<>>
    /\ slept = <<>>
    /\ outcome = NoOutcome
    /\ totalCalls \in PriorCalls
    /\ cliPc = "action"
    /\ optionStrategy \in DriverStrategies
    /\ optionRuns \in 0..MaxRuns
    /\ strategyAt = 0
    /\ runNumber = 0
    /\ launched = <<>>
    /\ resets = 0

\* program.action: the options are read, resetUsageStats(), and the loops
\* are entered
ProgramAction ==
    /\ cliPc = "action"
    /\ totalCalls' = 0
    /\ resets' = resets + 1
    /\ LET at == runsFrom(1, 1, Len(strategiesOf(optionStrategy)), optionRuns)
       IN  GoOnAt(at) /\ launched' = launchedWith(launched, at)
    /\ UNCHANGED <<optionStrategy, optionRuns>>
    /\ UNCHANGED <<clientPc, attempt, lastError, created, slept, outcome>>
    /\ UNCHANGED <<inputVars, pc, engineVars, storeVars, localVars, serviceVars>>
    /\ UNCHANGED validatorVars

\* await runExperiment(...) returns after calls generation calls, and the
\* loops go on
RunExperimentReturns ==
    /\ cliPc = "running"
    /\ \E calls \in 0..MaxRunCalls :
          /\ totalCalls' = totalCalls + calls
          /\ LET at == runsFrom(strategyAt, runNumber + 1,
                                Len(strategiesOf(optionStrategy)), optionRuns)
                 ended == [launched EXCEPT ![Len(launched)].calls = calls]
             IN  GoOnAt(at) /\ launched' = launchedWith(ended, at)
    /\ UNCHANGED <<optionStrategy, optionRuns, resets>>
    /\ UNCHANGED <<clientPc, attempt, lastError, created, slept, outcome>>
    /\ UNCHANGED <<inputVars, pc, engineVars, storeVars, localVars, serviceVars>>
    /\ UNCHANGED validatorVars

\* runExperiment throws after calls generation calls: nothing catches, and
\* the action's promise is rejected
RunExperimentThrows ==
    /\ cliPc = "running"
    /\ \E calls \in 0..MaxRunCalls :
          /\ totalCalls' = totalCalls + calls
          /\ launched' = [launched EXCEPT ![Len(launched)].calls = calls]
    /\ cliPc' = "rejected"
    /\ UNCHANGED <<optionStrategy, optionRuns, strategyAt, runNumber, resets>>
    /\ UNCHANGED <<clientPc, attempt, lastError, created, slept, outcome>>
    /\ UNCHANGED <<inputVars, pc, engineVars, storeVars, localVars, serviceVars>>
    /\ UNCHANGED validatorVars

DriverNext ==
    \/ ProgramAction
    \/ RunExperimentReturns
    \/ RunExperimentThrows

DriverSpec == DriverInit /\ [][DriverNext]_vars

\* the runs of the command line in the order strategy-major, run-minor
expectedRuns ==
    LET names == IF optionStrategy = "all"
                 THEN <<"incremental", "repair", "regeneration",
                        "regen-reconcile", "regen-full">>
                 ELSE <<optionStrategy>>
    IN  [j \in 1..(Len(names) * optionRuns) |->
            [strategy |-> names[((j - 1) \div optionRuns) + 1],
             runId |-> ((j - 1) % optionRuns) + 1]]

\* the generation calls of the runs started so far
callsOfRuns == SumOf(Map(launched, LAMBDA run : run.calls))

\* C35: the runs started are the first of the runs of the command line in
\* the order strategy-major, run-minor, one more with each step at most, and
\* all of them when the driver completes; the usage counters are reset once,
\* before the first run, and the call counter is then the sum of the calls of
\* the runs; after a run that throws nothing is started and nothing counted
C35_DriverOrder ==
    /\ [](/\ Len(launched) <= Len(expectedRuns)
          /\ \A j \in 1..Len(launched) :
                /\ launched[j].strategy = expectedRuns[j].strategy
                /\ launched[j].runId = expectedRuns[j].runId
          /\ cliPc = "running" => launched # <<>>
          /\ cliPc = "completed" => Len(launched) = Len(expectedRuns))
    /\ [][Len(launched') <= Len(launched) + 1]_vars
    /\ [](/\ resets = (IF cliPc = "action" THEN 0 ELSE 1)
          /\ cliPc # "action" => totalCalls = callsOfRuns)
    /\ [][resets' # resets => launched = <<>> /\ totalCalls' = 0]_vars
    /\ [][cliPc # "rejected"]_vars

\* of the ten runs of --strategy all --runs 2 the third, the first of
\* repair, threw: no other run was started, and the counter has the calls
\* of the three
C35_Witness ==
    /\ optionStrategy = "all" /\ optionRuns = 2
    /\ cliPc = "rejected"
    /\ totalCalls # 0
    /\ Len(launched) = 3
    /\ launched[1] = [strategy |-> "incremental", runId |-> 1, calls |-> 2]
    /\ launched[2] = [strategy |-> "incremental", runId |-> 2, calls |-> 2]
    /\ launched[3] = [strategy |-> "repair", runId |-> 1, calls |-> 1]
    /\ totalCalls = 2 + 2 + 1

\* the ten runs were made, the last the second of regen-full
C35_AllRuns ==
    /\ optionStrategy = "all" /\ optionRuns = 2
    /\ cliPc = "completed"
    /\ Len(launched) = 10
    /\ launched[9].strategy = "regen-full" /\ launched[9].runId = 1
    /\ launched[10].strategy = "regen-full" /\ launched[10].runId = 2
    /\ resets = 1
=============================================================================
